---- MODULE Spec2Model ----
(***************************************************************************)
(* Relative-position histogram engine of htsdb (htsdb-relative-pos-distro  *)
(* v0.4 and v0.6): the partition worker that scans the two datasets of one *)
(* reference, and the scheduler/aggregator that fans the references out to *)
(* a pool of workers and merges their results.                             *)
(***************************************************************************)
EXTENDS Integers, Sequences, FiniteSets, Bags, TLC

\* ------------------------------------------------------------------ bounds
\* Largest coordinate of a stored alignment (start, stop in 0..MaxCoord).
MaxCoord == 1
\* Largest copy_number of a stored alignment.
MaxCopy == 2
\* Largest number of rows of one dataset on the reference of the job.
MaxRows == 2
\* Largest number of rows of both datasets together on that reference.
MaxTotal == 3
\* Largest --span.
MaxSpan == 1

\* ------------------------------------------------------- feat.Orientation
Forward == 1
Reverse == -1
\* []feat.Orientation{feat.Forward, feat.Reverse}: the order of the loop.
Orientations == <<Forward, Reverse>>

\* ------------------------------------------------------------ Go map[int]
\* A Go map is a function on the set of keys written so far; a read of a
\* missing key gives the zero value and does not create the key.
EmptyMap == [k \in {} |-> 0]
Get(m, k) == IF k \in DOMAIN m THEN m[k] ELSE 0
\* m[k] += v (creates the key, also when v = 0).
MapAdd(m, k, v) == [x \in (DOMAIN m) \cup {k} |-> IF x = k THEN Get(m, k) + v ELSE m[x]]

\* ------------------------------------------------------------ htsdb.Range
Start(r) == r.StartPos
End(r) == r.StopPos + 1
Panic == "htsdb: orientation must be forward or reverse"
Return(v) == [kind |-> "return", value |-> v]
Panicked == [kind |-> "panic", msg |-> Panic]

\* Head returning r.End() - 1 for every orientation but forward.
HeadCallLenient(r, o) ==
  IF o = Forward THEN Return(Start(r))
  ELSE Return(End(r) - 1)
\* How a call of Head(r, o) ends: with a coordinate, or in a panic.
HeadCall(r, o) ==
  IF o = Forward THEN Return(Start(r))
  ELSE IF o = Reverse THEN Return(End(r) - 1)
  ELSE Panicked
\* Tail returning r.End() - 1 on both strands.
TailCallNoMirror(r, o) ==
  IF o = Forward THEN Return(End(r) - 1)
  ELSE IF o = Reverse THEN Return(End(r) - 1)
  ELSE Panicked
\* How a call of Tail(r, o) ends.
TailCall(r, o) ==
  IF o = Forward THEN Return(End(r) - 1)
  ELSE IF o = Reverse THEN Return(Start(r))
  ELSE Panicked
\* The value of Head(r, o), Tail(r, o) where the call returns.
RangeHead(r, o) == LET c == HeadCall(r, o) IN IF c.kind = "return" THEN c.value ELSE Panic
RangeTail(r, o) == LET c == TailCall(r, o) IN IF c.kind = "return" THEN c.value ELSE Panic

\* ------------------------- head and tail of compare-read-positions v0.1
LocalPanic == "hist-around-reference: strand is not 1 or -1"
LocalPanicked == [kind |-> "panic", msg |-> LocalPanic]
\* head with r.StartPos on both strands.
LocalHeadCallNoMirror(r, strand) ==
  IF strand = 1 THEN Return(r.StartPos)
  ELSE IF strand = -1 THEN Return(r.StartPos)
  ELSE LocalPanicked
\* How a call of head(r, strand) ends.
LocalHeadCall(r, strand) ==
  IF strand = 1 THEN Return(r.StartPos)
  ELSE IF strand = -1 THEN Return(r.StopPos)
  ELSE LocalPanicked
\* How a call of tail(r, strand) ends.
LocalTailCall(r, strand) ==
  IF strand = 1 THEN Return(r.StopPos)
  ELSE IF strand = -1 THEN Return(r.StartPos)
  ELSE LocalPanicked

\* ------------------------------------------- one call of Head or Tail: state
\* Largest coordinate of the range of a call.
MaxCallCoord == 19
VARIABLES
  callFn,     \* "Head" or "Tail"
  callRange,  \* r
  callOri,    \* o
  callRet,    \* how the call ended, if it did
  callPos     \* the caller's pos := getPos(&r, ori)
pvars == <<callFn, callRange, callOri, callRet, callPos>>
NoCall == [kind |-> "none"]
NoPos == [set |-> FALSE]
\* No call of Head or Tail is studied on its own.
PosIdle ==
  /\ callFn = "Head"
  /\ callRange = [StartPos |-> 0, StopPos |-> 0]
  /\ callOri = Forward
  /\ callRet = NoCall
  /\ callPos = NoPos
\* ----------------------------------------------------- readRefs: its state
VARIABLES
  refs1, refs2,  \* what SelectReferences returned for db1 and for db2
  rlist,         \* what the range over append(refs1, refs2...) has still to visit
  refsmap,       \* map[string]htsdb.Reference
  refs,          \* the slice readRefs returns
  rpc            \* where readRefs is
rvars == <<refs1, refs2, rlist, refsmap, refs, rpc>>
\* readRefs is not studied.
RefsIdle ==
  /\ refs1 = <<>>
  /\ refs2 = <<>>
  /\ rlist = <<>>
  /\ refsmap = <<>>
  /\ refs = <<>>
  /\ rpc = "idle"

\* ------------------------------------------------------ Reader: its state
\* Largest number of rows of the result of the query of a Reader.
MaxRecords == 3
\* Largest number of calls of Next after the one that consumes the last row.
MaxExtraCalls == 2
VARIABLES
  reader,      \* what NewReader returned: "nil" or "open"; "unborn" before
  newErr,      \* the error NewReader returned
  qall,        \* the rows of the result of the query
  qrows,       \* the rows the cursor r.rows has still to give
  rowsClosed,  \* r.rows is closed
  rowsErr,     \* what r.rows.Err() returns
  rerr,        \* r.err
  nexts        \* what the calls of Next returned, in order
dvars == <<reader, newErr, qall, qrows, rowsClosed, rowsErr, rerr, nexts>>
Nil == "nil"
\* No Reader is studied.
ReaderIdle ==
  /\ reader = "unborn"
  /\ newErr = Nil
  /\ qall = <<>>
  /\ qrows = <<>>
  /\ rowsClosed = FALSE
  /\ rowsErr = Nil
  /\ rerr = Nil
  /\ nexts = <<>>

\* ------------------------------------------- the content of the two databases
VARIABLES
  computed  \* per span and job, what the scans of a worker give on the two
            \* databases of the run: with every row read, and with the cursor
            \* on db1 stopped before its first row
cvars == <<computed>>
\* No run of the scheduler is studied.
NoTables == computed = <<>>

\* ------------------------------------- the maps of the workers: their state
\* Number of jobs handed to the workers whose maps are followed.
OwnJobs == 3
VARIABLES
  heap,   \* the maps made so far: heap[a] is the content of the map at address a
  own,    \* per worker: where it is, its job and the locals hist, wig, count1, count2
  ojob,   \* the next job the range over jobs delivers
  osent,  \* the results received from the channel: the address of hist, the counts
  osnap   \* what each of those histograms held when it was sent
ovars == <<heap, own, ojob, osent, osnap>>
\* No map is followed.
OwnIdle ==
  /\ heap = <<>>
  /\ own = <<>>
  /\ ojob = 1
  /\ osent = <<>>
  /\ osnap = <<>>

\* ---------------------------------- the position-overlap tools: their state
VARIABLES
  tool,    \* "htsdb-pos-overlap" or "compare-read-positions"
  parts,   \* per (reference, strand): the goroutine main started for it
  aggrCount, \* main's aggr
  xpc,     \* where main is
  xout     \* what main printed
xvars == <<tool, parts, aggrCount, xpc, xout>>
\* count{}
ZeroCount == [posTotal |-> 0, posOccupied |-> 0, readsTotal |-> 0, readsOccupied |-> 0]
\* No position-overlap tool is studied.
OverlapIdle ==
  /\ tool = "htsdb-pos-overlap"
  /\ parts = <<>>
  /\ aggrCount = ZeroCount
  /\ xpc = "idle"
  /\ xout = <<>>

\* ------------------------------------- the Reader of htsdb-to-sam: its state
\* A buffer shorter than every line, and one longer than every line.
SmallBuf == 8
LargeBuf == 64
\* Largest number of calls of Read.
MaxReads == 4
VARIABLES
  samAll,      \* the records of the result of the query
  samRows,     \* the records r.rows has still to give
  samRowsErr,  \* what r.rows.Err() returns
  samOut,      \* the bytes the calls of Read returned, one after the other
  samLog       \* per call of Read: len(p), n, err and the number of rows it took
mvars == <<samAll, samRows, samRowsErr, samOut, samLog>>
\* No Reader of htsdb-to-sam is studied.
SamIdle ==
  /\ samAll = <<>>
  /\ samRows = <<>>
  /\ samRowsErr = "nil"
  /\ samOut = <<>>
  /\ samLog = <<>>

\* getPos1/getPos2: htsdb.Head unless the option is "3p".
GetPos(p, r, o) == IF p = "3p" THEN RangeTail(r, o) ELSE RangeHead(r, o)

\* ------------------------------------------------------------- the worker
\* ori1 without the test on the Anti option.
Ori1NoAnti(o, ori) == ori

\* ori1: the orientation dataset 1 is queried with.
Ori1(o, ori) == IF o.Anti THEN -1 * ori ELSE ori

\* Queryx without "AND rname = ?".
RECURSIVE QueryAnyRef(_, _, _)
QueryAnyRef(db, ori, ref) ==
  IF db = <<>> THEN <<>>
  ELSE LET r == db[1]
           rest == QueryAnyRef(SubSeq(db, 2, Len(db)), ori, ref)
       IN IF r.strand = ori THEN <<r>> \o rest ELSE rest

\* Queryx without "strand = ? AND".
RECURSIVE QueryAnyStrand(_, _, _)
QueryAnyStrand(db, ori, ref) ==
  IF db = <<>> THEN <<>>
  ELSE LET r == db[1]
           rest == QueryAnyStrand(SubSeq(db, 2, Len(db)), ori, ref)
       IN IF r.rname = ref THEN <<r>> \o rest ELSE rest

\* Queryx(ori, ref): the rows of the table WHERE strand = ori AND rname = ref,
\* in table order.
RECURSIVE Query(_, _, _)
Query(db, ori, ref) ==
  IF db = <<>> THEN <<>>
  ELSE LET r == db[1]
           rest == Query(SubSeq(db, 2, Len(db)), ori, ref)
       IN IF r.strand = ori /\ r.rname = ref THEN <<r>> \o rest ELSE rest

\* Step1 adding the copy number of the read to the index instead of 1.
Step1Weighted(o, st, r, ori1) ==
  LET pos == GetPos(o.Pos1, r, ori1)
  IN IF pos \in DOMAIN st.wig /\ o.Collapse1
     THEN st
     ELSE [wig |-> MapAdd(st.wig, pos, r.CopyNumber), count1 |-> st.count1 + 1]

\* Step1 counting the read before the test on collapsing, as v0.4 orders the
\* two statements.
Step1CountAll(o, st, r, ori1) ==
  LET pos == GetPos(o.Pos1, r, ori1)
  IN IF pos \in DOMAIN st.wig /\ o.Collapse1
     THEN [st EXCEPT !.count1 = @ + 1]
     ELSE [wig |-> MapAdd(st.wig, pos, 1), count1 |-> st.count1 + 1]

\* Step1 testing the start of the read, not its reference point, for collapsing.
Step1CollapseByStart(o, st, r, ori1) ==
  LET pos == GetPos(o.Pos1, r, ori1)
  IN IF r.StartPos \in DOMAIN st.wig /\ o.Collapse1
     THEN st
     ELSE [wig |-> MapAdd(st.wig, pos, 1), count1 |-> st.count1 + 1]

\* One pass of the loop on reads in db1: st = [wig, count1].
Step1(o, st, r, ori1) ==
  LET pos == GetPos(o.Pos1, r, ori1)
  IN IF pos \in DOMAIN st.wig /\ o.Collapse1
     THEN st
     ELSE [wig |-> MapAdd(st.wig, pos, 1), count1 |-> st.count1 + 1]

\* Probe without the sign flip by ori.
RECURSIVE ProbeNoFlip(_, _, _, _, _, _)
ProbeNoFlip(hist, wig, pos, ori, relPos, span) ==
  IF relPos > span THEN hist
  ELSE IF pos + relPos < 0
       THEN ProbeNoFlip(hist, wig, pos, ori, relPos + 1, span)
       ELSE ProbeNoFlip(MapAdd(hist, relPos, Get(wig, pos + relPos)),
                        wig, pos, ori, relPos + 1, span)

\* Probe without the test pos+relPos < 0.
RECURSIVE ProbeNoSkip(_, _, _, _, _, _)
ProbeNoSkip(hist, wig, pos, ori, relPos, span) ==
  IF relPos > span THEN hist
  ELSE ProbeNoSkip(MapAdd(hist, relPos * ori, Get(wig, pos + relPos)),
                   wig, pos, ori, relPos + 1, span)

\* Probe with the probed position as the key of the histogram.
RECURSIVE ProbeKeyedByPos(_, _, _, _, _, _)
ProbeKeyedByPos(hist, wig, pos, ori, relPos, span) ==
  IF relPos > span THEN hist
  ELSE IF pos + relPos < 0
       THEN ProbeKeyedByPos(hist, wig, pos, ori, relPos + 1, span)
       ELSE ProbeKeyedByPos(MapAdd(hist, pos + relPos, Get(wig, pos + relPos)),
                            wig, pos, ori, relPos + 1, span)

\* The inner loop on relPos, from relPos to Span.
RECURSIVE Probe(_, _, _, _, _, _)
Probe(hist, wig, pos, ori, relPos, span) ==
  IF relPos > span THEN hist
  ELSE IF pos + relPos < 0
       THEN Probe(hist, wig, pos, ori, relPos + 1, span)
       ELSE Probe(MapAdd(hist, relPos * ori, Get(wig, pos + relPos)),
                  wig, pos, ori, relPos + 1, span)

\* Step2 without visited[pos] = true.
Step2NoVisit(o, st, wig, r, ori) ==
  LET pos == GetPos(o.Pos2, r, ori)
  IN IF pos \in st.visited /\ o.Collapse2
     THEN st
     ELSE [visited |-> st.visited,
           hist |-> Probe(st.hist, wig, pos, ori, -o.Span, o.Span),
           count2 |-> st.count2 + 1]

\* Step2 counting the copies of the read instead of the read.
Step2Weighted(o, st, wig, r, ori) ==
  LET pos == GetPos(o.Pos2, r, ori)
  IN IF pos \in st.visited /\ o.Collapse2
     THEN st
     ELSE [visited |-> st.visited \cup {pos},
           hist |-> Probe(st.hist, wig, pos, ori, -o.Span, o.Span),
           count2 |-> st.count2 + r.CopyNumber]

\* Step2 without count2++.
Step2NoCount(o, st, wig, r, ori) ==
  LET pos == GetPos(o.Pos2, r, ori)
  IN IF pos \in st.visited /\ o.Collapse2
     THEN st
     ELSE [visited |-> st.visited \cup {pos},
           hist |-> Probe(st.hist, wig, pos, ori, -o.Span, o.Span),
           count2 |-> st.count2]

\* One pass of the loop on reads in db2: st = [visited, hist, count2].
Step2(o, st, wig, r, ori) ==
  LET pos == GetPos(o.Pos2, r, ori)
  IN IF pos \in st.visited /\ o.Collapse2
     THEN st
     ELSE [visited |-> st.visited \cup {pos},
           hist |-> Probe(st.hist, wig, pos, ori, -o.Span, o.Span),
           count2 |-> st.count2 + 1]

\* The whole loop on reads in db1 over the rows of one cursor.
RECURSIVE Scan1(_, _, _, _)
Scan1(o, st, rs, ori1) ==
  IF rs = <<>> THEN st
  ELSE Scan1(o, Step1(o, st, rs[1], ori1), Tail(rs), ori1)

\* The whole loop on reads in db2 over the rows of one cursor.
RECURSIVE Scan2(_, _, _, _, _)
Scan2(o, st, wig, rs, ori) ==
  IF rs = <<>> THEN st
  ELSE Scan2(o, Step2(o, st, wig, rs[1], ori), wig, Tail(rs), ori)

\* One pass of the loop on Orientations: acc = [hist, count1, count2].
OriPass(o, acc, t1, t2, ref, ori) ==
  LET s1 == Scan1(o, [wig |-> EmptyMap, count1 |-> acc.count1],
                  Query(t1, Ori1(o, ori), ref), Ori1(o, ori))
      s2 == Scan2(o, [visited |-> {}, hist |-> acc.hist, count2 |-> acc.count2],
                  s1.wig, Query(t2, ori, ref), ori)
  IN [hist |-> s2.hist, count1 |-> s1.count1, count2 |-> s2.count2]

\* RunJob with wig and visited made once, before the loop on orientations.
RunJobSharedMaps(o, t1, t2, ref) ==
  LET f1 == Ori1(o, Forward)
      r1 == Ori1(o, Reverse)
      a == Scan1(o, [wig |-> EmptyMap, count1 |-> 0], Query(t1, f1, ref), f1)
      b == Scan2(o, [visited |-> {}, hist |-> EmptyMap, count2 |-> 0],
                 a.wig, Query(t2, Forward, ref), Forward)
      c == Scan1(o, a, Query(t1, r1, ref), r1)
      d == Scan2(o, b, c.wig, Query(t2, Reverse, ref), Reverse)
  IN [hist |-> d.hist, count1 |-> c.count1, count2 |-> d.count2]

\* RunJob with the loop on orientations stopped after feat.Forward.
RunJobForwardOnly(o, t1, t2, ref) ==
  LET zero == [hist |-> EmptyMap, count1 |-> 0, count2 |-> 0]
  IN OriPass(o, zero, t1, t2, ref, Forward)

\* The result a worker sends for the job of reference ref when no read fails.
RunJob(o, t1, t2, ref) ==
  LET a0 == [hist |-> EmptyMap, count1 |-> 0, count2 |-> 0]
      a1 == OriPass(o, a0, t1, t2, ref, Orientations[1])
  IN OriPass(o, a1, t1, t2, ref, Orientations[2])

\* ------------------------- the goroutine of compare-read-relative-pos v0.1
\* The loop on rows1 adding the copy number of the read to the index.
RECURSIVE CmpScan1Weighted(_, _, _, _)
CmpScan1Weighted(w, rs, p, o1) ==
  IF rs = <<>> THEN w
  ELSE CmpScan1Weighted(MapAdd(w, GetPos(p, rs[1], o1), rs[1].CopyNumber), Tail(rs), p, o1)

\* for rows1.Next() { pos := getPos(&r, ori1); wig[pos]++ }
RECURSIVE CmpScan1(_, _, _, _)
CmpScan1(w, rs, p, o1) ==
  IF rs = <<>> THEN w
  ELSE CmpScan1(MapAdd(w, GetPos(p, rs[1], o1), 1), Tail(rs), p, o1)

\* for rows2.Next() { pos := getPos(&r, ori); for relPos := -span; ... }
RECURSIVE CmpScan2(_, _, _, _, _, _)
CmpScan2(h, w, rs, p, o2, span) ==
  IF rs = <<>> THEN h
  ELSE CmpScan2(Probe(h, w, GetPos(p, rs[1], o2), o2, -span, span), w, Tail(rs),
                p, o2, span)

\* The histogram the goroutine of (ori, ref) sends on hists when no read fails;
\* getPos is the one function of --from for both datasets.
CmpGoroutine(o, t1, t2, ref, o2) ==
  LET o1 == IF o.Anti THEN -1 * o2 ELSE o2
      w == CmpScan1(EmptyMap, Query(t1, o1, ref), o.Pos1, o1)
  IN CmpScan2(EmptyMap, w, Query(t2, o2, ref), o.Pos1, o2, o.Span)

\* ------------------------------------------------------------- the inputs
\* The reference of the job under study.
Chr1 == "chr1"
Strands == {Forward, Reverse}
\* The rows a table can hold on one reference.
Rows(ref) ==
  {[rname |-> ref, strand |-> s, StartPos |-> a, StopPos |-> b, CopyNumber |-> c] :
     s \in Strands, a \in 0..MaxCoord, b \in 0..MaxCoord, c \in 1..MaxCopy}
  \ {[rname |-> ref, strand |-> s, StartPos |-> a, StopPos |-> b, CopyNumber |-> c] :
     s \in Strands, a \in 1..MaxCoord, b \in 0..(MaxCoord-1), c \in 1..MaxCopy}
SeqsUpTo(S, n) == UNION {[1..k -> S] : k \in 0..n}
Tables(ref) == SeqsUpTo({r \in Rows(ref) : r.StartPos <= r.StopPos}, MaxRows)
Positions == {"5p", "3p"}
OptsSet ==
  [Span : 0..MaxSpan, Collapse1 : BOOLEAN, Collapse2 : BOOLEAN, Anti : BOOLEAN,
   Pos1 : Positions, Pos2 : Positions]

\* The scenario of the documentation: one forward read [10,11) in db1, one
\* forward read [12,13) in db2, span 5, head against head.
ScenarioOpts ==
  [Span |-> 5, Collapse1 |-> FALSE, Collapse2 |-> FALSE, Anti |-> FALSE,
   Pos1 |-> "5p", Pos2 |-> "5p"]
ScenarioDB1 ==
  <<[rname |-> Chr1, strand |-> Forward, StartPos |-> 10, StopPos |-> 10, CopyNumber |-> 1]>>
ScenarioDB2 ==
  <<[rname |-> Chr1, strand |-> Forward, StartPos |-> 12, StopPos |-> 12, CopyNumber |-> 1]>>

\* A job with a pair of reads on each strand: dataset 1 holds a forward read
\* at 0 and a reverse read at MaxCoord, dataset 2 a forward read at MaxCoord and
\* a reverse read at 0; no collapsing, head against head, with and without Anti.
BothStrandsOpts ==
  {[Span |-> MaxSpan, Collapse1 |-> FALSE, Collapse2 |-> FALSE, Anti |-> a,
    Pos1 |-> "5p", Pos2 |-> "5p"] : a \in BOOLEAN}
BothStrandsDB1 ==
  <<[rname |-> Chr1, strand |-> Forward, StartPos |-> 0, StopPos |-> 0, CopyNumber |-> 1],
    [rname |-> Chr1, strand |-> Reverse, StartPos |-> MaxCoord, StopPos |-> MaxCoord,
     CopyNumber |-> 1]>>
BothStrandsDB2 ==
  <<[rname |-> Chr1, strand |-> Forward, StartPos |-> MaxCoord, StopPos |-> MaxCoord,
     CopyNumber |-> 1],
    [rname |-> Chr1, strand |-> Reverse, StartPos |-> 0, StopPos |-> 0, CopyNumber |-> 1]>>

\* ------------------------------------------------- the scheduler: its state
\* Pool size (const maxConc: 512 in v0.4, 12 in v0.6), scaled down.
MaxConc == 2
\* Capacity of the jobs channel of v0.4 (100000), scaled down.
JobsCap == 1
\* Capacity of the results channel of v0.4 (100), scaled down.
ResultsCap == 1
\* Largest number of enumerated references.
MaxRefs == 5
\* Largest number of cursors that stop on an error without the run ending.
MaxFaults == 1

Versions == {"0.4", "0.6"}
RefNames == <<"chr1", "chr2", "chr3", "chr4", "chr5", "chr6", "chr7", "chr8">>

VARIABLES
  version,       \* which main is running
  groupRef,      \* --by-ref
  nrefs,         \* len(refs)
  refsErr,       \* SelectReferences returned an error
  nextJob,       \* index in refs of the next job to send on jobs
  jobs,          \* jobs in the buffer of the jobs channel (v0.4)
  jobsClosed,    \* close(jobs) was called
  pool,          \* the worker goroutines: a bag of (position, job, result)
  results,       \* results in the buffer of the results channel (v0.4)
  resultsClosed, \* close(results) was called (v0.6)
  mpc,           \* where main is
  jobCnt,        \* jobCnt of v0.4
  allResults,    \* allResults of v0.4
  aggrHist, totalCount1, totalCount2,
  out,           \* what was printed on standard output
  exited,        \* log.Fatal ended the process
  faults,        \* cursors that stopped on an error so far
  received,      \* per job: how many workers received it
  arrived        \* the jobs whose result main received, in that order

svars == <<version, groupRef, nrefs, refsErr, nextJob, jobs, jobsClosed, pool, results,
           resultsClosed, mpc, jobCnt, allResults, aggrHist, totalCount1,
           totalCount2, out, exited, faults, received, arrived>>

\* result{hist, job, count1, count2}; job 0 stands for no result.
NoRes == [job |-> 0, hist |-> EmptyMap, count1 |-> 0, count2 |-> 0]

\* for i := 0; i < maxConc; i++ { go worker(...) }: the goroutines run the same
\* function and have no identity, so the pool is the bag of their states.
Worker(st, j, r) == [state |-> st, job |-> j, res |-> r]
IdleWorker == Worker("idle", 0, NoRes)
Workers == [w \in {IdleWorker} |-> MaxConc]
\* The pool after one goroutine in state w moved to state v.
Moved(w, v) == (pool (-) SetToBag({w})) (+) SetToBag({v})

\* The scheduler at rest, while a single worker is studied.
SchedIdle ==
  /\ version = "0.6"
  /\ groupRef = FALSE
  /\ nrefs = 0
  /\ refsErr = FALSE
  /\ nextJob = 1
  /\ jobs = <<>>
  /\ jobsClosed = FALSE
  /\ pool = Workers
  /\ results = <<>>
  /\ resultsClosed = FALSE
  /\ mpc = "start"
  /\ jobCnt = 0
  /\ allResults = <<>>
  /\ aggrHist = EmptyMap
  /\ totalCount1 = 0
  /\ totalCount2 = 0
  /\ out = <<>>
  /\ exited = FALSE
  /\ faults = 0
  /\ received = <<>>
  /\ arrived = <<>>

\* ------------------------------------------------- the worker, step by step
VARIABLES
  opts,       \* j.opts
  db1, db2,   \* the two tables behind j.db1, j.db2
  pc,         \* where the worker is in its job
  oriIdx,     \* index of ori in Orientations
  wig,        \* map[int]uint of the current orientation
  visited,    \* map[int]bool of the current orientation (its true keys)
  hist,       \* map[int]uint of the job
  count1, count2,
  rows,       \* the rows the open cursor has still to deliver
  res,        \* what was sent on results, if anything
  truncated   \* a cursor stopped on an error with rows undelivered

wvars == <<opts, db1, db2, pc, oriIdx, wig, visited, hist, count1, count2, rows,
           res, truncated>>

NoResult == [sent |-> FALSE]
ori == Orientations[oriIdx]
ori1 == Ori1(opts, ori)

WorkerInit ==
  /\ \/ /\ opts \in OptsSet
        /\ db1 \in Tables(Chr1)
        /\ db2 \in Tables(Chr1)
        /\ Len(db1) + Len(db2) <= MaxTotal
     \/ /\ opts = ScenarioOpts
        /\ db1 = ScenarioDB1
        /\ db2 = ScenarioDB2
     \/ /\ opts \in BothStrandsOpts
        /\ db1 = BothStrandsDB1
        /\ db2 = BothStrandsDB2
  /\ pc = "start"
  /\ oriIdx = 1
  /\ wig = EmptyMap
  /\ visited = {}
  /\ hist = EmptyMap
  /\ count1 = 0
  /\ count2 = 0
  /\ rows = <<>>
  /\ res = NoResult
  /\ truncated = FALSE
  /\ SchedIdle
  /\ PosIdle
  /\ RefsIdle
  /\ ReaderIdle
  /\ NoTables
  /\ SamIdle
  /\ OverlapIdle
  /\ OwnIdle

\* wig := make(map[int]uint); rows1 := readsStmt1.Queryx(ori1, ref)
Query1 ==
  /\ pc = "start"
  /\ wig' = EmptyMap
  /\ rows' = Query(db1, ori1, Chr1)
  /\ pc' = "rows1"
  /\ UNCHANGED <<opts, db1, db2, oriIdx, visited, hist, count1, count2, res, truncated>>
  /\ UNCHANGED <<svars, pvars, rvars, dvars, cvars, ovars, xvars, mvars>>

\* rows1.Next() delivers a row: StructScan and the body of the loop.
Rows1Next ==
  /\ pc = "rows1"
  /\ rows # <<>>
  /\ LET st == Step1(opts, [wig |-> wig, count1 |-> count1], rows[1], ori1)
     IN /\ wig' = st.wig
        /\ count1' = st.count1
  /\ rows' = Tail(rows)
  /\ UNCHANGED <<opts, db1, db2, pc, oriIdx, visited, hist, count2, res, truncated>>
  /\ UNCHANGED <<svars, pvars, rvars, dvars, cvars, ovars, xvars, mvars>>

\* The query on db2 issued while the cursor on db1 may still hold rows.
Query2Early ==
  /\ pc = "rows1"
  /\ visited' = {}
  /\ rows' = Query(db2, ori, Chr1)
  /\ pc' = "rows2"
  /\ UNCHANGED <<opts, db1, db2, oriIdx, wig, hist, count1, count2, res, truncated>>
  /\ UNCHANGED <<svars, pvars, rvars, dvars, cvars, ovars, xvars, mvars>>

\* rows1.Next() is false; visited := make(map[int]bool); rows2 := Queryx(ori, ref)
Query2 ==
  /\ pc = "rows1"
  /\ rows = <<>>
  /\ visited' = {}
  /\ rows' = Query(db2, ori, Chr1)
  /\ pc' = "rows2"
  /\ UNCHANGED <<opts, db1, db2, oriIdx, wig, hist, count1, count2, res, truncated>>
  /\ UNCHANGED <<svars, pvars, rvars, dvars, cvars, ovars, xvars, mvars>>

\* rows2.Next() delivers a row: StructScan and the body of the loop.
Rows2Next ==
  /\ pc = "rows2"
  /\ rows # <<>>
  /\ LET st == Step2(opts, [visited |-> visited, hist |-> hist, count2 |-> count2],
                     wig, rows[1], ori)
     IN /\ visited' = st.visited
        /\ hist' = st.hist
        /\ count2' = st.count2
  /\ rows' = Tail(rows)
  /\ UNCHANGED <<opts, db1, db2, pc, oriIdx, wig, count1, res, truncated>>
  /\ UNCHANGED <<svars, pvars, rvars, dvars, cvars, ovars, xvars, mvars>>

\* rows2.Next() is false and an orientation is left: the next pass of the loop.
NextOri ==
  /\ pc = "rows2"
  /\ rows = <<>>
  /\ oriIdx < Len(Orientations)
  /\ oriIdx' = oriIdx + 1
  /\ pc' = "start"
  /\ UNCHANGED <<opts, db1, db2, wig, visited, hist, count1, count2, rows, res, truncated>>
  /\ UNCHANGED <<svars, pvars, rvars, dvars, cvars, ovars, xvars, mvars>>

\* results <- result{hist, job, count1, count2}
Send ==
  /\ pc = "rows2"
  /\ rows = <<>>
  /\ oriIdx = Len(Orientations)
  /\ res' = [sent |-> TRUE, hist |-> hist, count1 |-> count1, count2 |-> count2]
  /\ pc' = "done"
  /\ UNCHANGED <<opts, db1, db2, oriIdx, wig, visited, hist, count1, count2, rows, truncated>>
  /\ UNCHANGED <<svars, pvars, rvars, dvars, cvars, ovars, xvars, mvars>>

WorkerNext == Query1 \/ Rows1Next \/ Query2 \/ Rows2Next \/ NextOri \/ Send

vars == <<wvars, svars, pvars, rvars, dvars, cvars, ovars, xvars, mvars>>
Init == WorkerInit
Next == WorkerNext
Spec == Init /\ [][Next]_vars

\* ------------------------------------------------ the worker, reads failing
\* prepareStmt returns an error: log.Fatal.
PrepareFail ==
  /\ pc = "start"
  /\ oriIdx = 1
  /\ pc' = "fatal"
  /\ UNCHANGED <<opts, db1, db2, oriIdx, wig, visited, hist, count1, count2, rows,
                 res, truncated>>
  /\ UNCHANGED <<svars, pvars, rvars, dvars, cvars, ovars, xvars, mvars>>

\* Queryx returns an error: log.Fatal.
QueryFail ==
  /\ \/ pc = "start"
     \/ pc = "rows1" /\ rows = <<>>
  /\ pc' = "fatal"
  /\ UNCHANGED <<opts, db1, db2, oriIdx, wig, visited, hist, count1, count2, rows,
                 res, truncated>>
  /\ UNCHANGED <<svars, pvars, rvars, dvars, cvars, ovars, xvars, mvars>>

\* rows.Next() delivers a row and StructScan returns an error: log.Fatal.
ScanFail ==
  /\ pc \in {"rows1", "rows2"}
  /\ rows # <<>>
  /\ pc' = "fatal"
  /\ UNCHANGED <<opts, db1, db2, oriIdx, wig, visited, hist, count1, count2, rows,
                 res, truncated>>
  /\ UNCHANGED <<svars, pvars, rvars, dvars, cvars, ovars, xvars, mvars>>

\* rows.Next() returns false on an error of the cursor with rows undelivered:
\* the for loop ends as it does after the last row, rows.Err() is not read.
NextFail ==
  /\ pc \in {"rows1", "rows2"}
  /\ rows # <<>>
  /\ rows' = <<>>
  /\ truncated' = TRUE
  /\ UNCHANGED <<opts, db1, db2, pc, oriIdx, wig, visited, hist, count1, count2, res>>
  /\ UNCHANGED <<svars, pvars, rvars, dvars, cvars, ovars, xvars, mvars>>

FaultInit == WorkerInit /\ Len(db1) + Len(db2) < MaxTotal
FaultNext == WorkerNext \/ PrepareFail \/ QueryFail \/ ScanFail \/ NextFail
SpecFault == FaultInit /\ [][FaultNext]_vars

\* --------------------------------------------- one call of Head or Tail
\* The worker at rest.
WorkerIdle ==
  /\ opts = ScenarioOpts
  /\ db1 = <<>>
  /\ db2 = <<>>
  /\ pc = "idle"
  /\ oriIdx = 1
  /\ wig = EmptyMap
  /\ visited = {}
  /\ hist = EmptyMap
  /\ count1 = 0
  /\ count2 = 0
  /\ rows = <<>>
  /\ res = NoResult
  /\ truncated = FALSE

\* feat.Orientation is an int8: Reverse, NotOriented, Forward.
CallOrientations == {Reverse, 0, Forward}
CallRanges ==
  {r \in [StartPos : 0..MaxCallCoord, StopPos : 0..MaxCallCoord] :
     r.StartPos <= r.StopPos}

PosInit ==
  /\ callFn \in {"Head", "Tail"}
  /\ callRange \in CallRanges
  /\ callOri \in CallOrientations
  /\ callRet = NoCall
  /\ callPos = NoPos
  /\ WorkerIdle
  /\ SchedIdle
  /\ RefsIdle
  /\ ReaderIdle
  /\ NoTables
  /\ SamIdle
  /\ OverlapIdle
  /\ OwnIdle

\* getPos(&r, ori) runs to its return or to its panic.
CallPos ==
  /\ callRet = NoCall
  /\ callRet' = IF callFn = "Head" THEN HeadCall(callRange, callOri)
                ELSE TailCall(callRange, callOri)
  /\ UNCHANGED <<callFn, callRange, callOri, callPos>>
  /\ UNCHANGED <<wvars, svars, rvars, dvars, cvars, ovars, xvars, mvars>>

\* pos := the value returned; a panic is not recovered anywhere, so after one
\* the caller does not run.
AssignPos ==
  /\ callRet.kind = "return"
  /\ callPos = NoPos
  /\ callPos' = [set |-> TRUE, value |-> callRet.value]
  /\ UNCHANGED <<callFn, callRange, callOri, callRet>>
  /\ UNCHANGED <<wvars, svars, rvars, dvars, cvars, ovars, xvars, mvars>>

PosNext == CallPos \/ AssignPos
SpecPos == PosInit /\ [][PosNext]_vars

\* C17: a call that returns gives start for Head forward and Tail reverse, and
\* end - 1 (the stored stop) for Head reverse and Tail forward; Head(r, o) and
\* Tail(r, -o) end the same way on both strands; on the reverse interval
\* [10,20) Head gives 19 and Tail gives 10.
C17_HeadTailMirror ==
  /\ callRet.kind = "return" =>
       callRet.value =
         (IF (callFn = "Head") = (callOri = Forward)
          THEN callRange.StartPos
          ELSE (callRange.StopPos + 1) - 1)
  /\ callOri \in Strands =>
       /\ HeadCall(callRange, callOri) = TailCall(callRange, -1 * callOri)
       /\ HeadCall(callRange, callOri).kind = "return"
  /\ (callRange = [StartPos |-> 10, StopPos |-> 19] /\ callOri = Reverse
      /\ callPos.set) =>
       callPos.value = (IF callFn = "Head" THEN 19 ELSE 10)
C17_Witness ==
  /\ callRange = [StartPos |-> 10, StopPos |-> 19]
  /\ callOri = Reverse
  /\ callFn = "Tail"
  /\ callPos = [set |-> TRUE, value |-> 10]

\* C18: a call of Head or Tail with an orientation that is neither forward nor
\* reverse never returns: it ends in a panic and the caller never gets a
\* position to go on with.
C18_BadOrientationPanics ==
  callOri \notin Strands =>
    /\ callRet.kind \in {"none", "panic"}
    /\ callPos = NoPos
    /\ ~ENABLED AssignPos
C18_Witness ==
  /\ callOri = 0
  /\ callRet = Panicked
  /\ callFn = "Head"

\* ------------------------------------------------- properties of the worker
\* The reference point of a row on its own strand.
PosOf(p, r) == GetPos(p, r, r.strand)
\* The rows the cursor of the current pass was opened on.
Scanned1 == Query(db1, ori1, Chr1)
Scanned2 == Query(db2, ori, Chr1)
SpanRange == (-opts.Span)..opts.Span
IsScenario == opts = ScenarioOpts /\ db1 = ScenarioDB1 /\ db2 = ScenarioDB2

\* The pair-count reference operator: the pairs (r1, r2) of reads of ref with r2
\* on either strand, r1 on the strand dataset 1 is queried with for r2's strand,
\* and (pos1 - pos2) * ori = k.
PairCount(o, t1, t2, ref, k) ==
  Cardinality({ij \in (DOMAIN t1) \X (DOMAIN t2) :
    LET r1 == t1[ij[1]]
        r2 == t2[ij[2]]
    IN /\ r1.rname = ref
       /\ r2.rname = ref
       /\ r1.strand = Ori1(o, r2.strand)
       /\ (PosOf(o.Pos1, r1) - PosOf(o.Pos2, r2)) * r2.strand = k})

\* C4: with collapsing off the histogram sent for a reference is the pair count
\* at every offset of [-span, span], so a positive offset means the dataset-1
\* point is downstream of the dataset-2 point on both strands; the documented
\* scenario gives histogram[-2] = 1, every other offset 0, and both counts 1.
C4_HistogramIsPairCount ==
  (res.sent /\ ~opts.Collapse1 /\ ~opts.Collapse2) =>
    /\ \A k \in SpanRange : Get(res.hist, k) = PairCount(opts, db1, db2, Chr1, k)
    /\ \A k \in SpanRange : (k > 0 /\ Get(res.hist, k) > 0) =>
         \E i \in DOMAIN db1, j \in DOMAIN db2 :
           (PosOf(opts.Pos1, db1[i]) - PosOf(opts.Pos2, db2[j])) * db2[j].strand > 0
    /\ IsScenario =>
         /\ \A k \in SpanRange : Get(res.hist, k) = (IF k = -2 THEN 1 ELSE 0)
         /\ res.count1 = 1
         /\ res.count2 = 1
C4_Witness == res.sent /\ IsScenario /\ Get(res.hist, -2) = 1

RECURSIVE SumCopyAt(_, _, _)
SumCopyAt(rs, p, pos) ==
  IF rs = <<>> THEN 0
  ELSE (IF GetPos(p, rs[1], rs[1].strand) = pos THEN rs[1].CopyNumber ELSE 0)
       + SumCopyAt(Tail(rs), p, pos)
CountAt(rs, p, pos) == Cardinality({i \in DOMAIN rs : PosOf(p, rs[i]) = pos})
PosSet(rs, p) == {PosOf(p, rs[i]) : i \in DOMAIN rs}
Scan1Done == pc = "rows1" /\ rows = <<>>

\* C5 as stated: with collapse1 off, after the scan of dataset 1 index[p] is the
\* sum of the copy numbers of the scanned reads whose reference point is p.
C5_IndexSumsCopyNumbers ==
  (Scan1Done /\ ~opts.Collapse1) =>
    \A pos \in PosSet(Scanned1, opts.Pos1) \cup DOMAIN wig :
      Get(wig, pos) = SumCopyAt(Scanned1, opts.Pos1, pos)
\* C5 as amended: with collapse1 off, after the scan of dataset 1 index[p] is the
\* number of scanned reads whose reference point is p; the copy number is not
\* used.
C5_IndexCountsRecords ==
  (Scan1Done /\ ~opts.Collapse1) =>
    \A pos \in PosSet(Scanned1, opts.Pos1) \cup DOMAIN wig :
      Get(wig, pos) = CountAt(Scanned1, opts.Pos1, pos)
C5_Witness ==
  /\ Scan1Done
  /\ ~opts.Collapse1
  /\ \E i \in DOMAIN Scanned1 :
       /\ Scanned1[i].CopyNumber > 1
       /\ Get(wig, PosOf(opts.Pos1, Scanned1[i])) = 2

\* The reads dataset 1 holds for pass i of the loop on Orientations.
PassRows1(i) == Query(db1, Ori1(opts, Orientations[i]), Chr1)
RECURSIVE ExpCount1(_)
ExpCount1(i) ==
  IF i = 0 THEN 0
  ELSE ExpCount1(i - 1)
       + (IF opts.Collapse1 THEN Cardinality(PosSet(PassRows1(i), opts.Pos1))
          ELSE Len(PassRows1(i)))

\* C6: with collapse1 on, after the scan of dataset 1 every position of the index
\* has weight 1 and readCount1 has grown by the number of distinct positions
\* (only the first read of a position counts); with collapse1 off readCount1
\* has grown by the number of scanned reads.
C6_Collapse1 ==
  Scan1Done =>
    /\ count1 = ExpCount1(oriIdx)
    /\ opts.Collapse1 => \A pos \in DOMAIN wig : wig[pos] = 1
    /\ DOMAIN wig = PosSet(Scanned1, opts.Pos1)
C6_Witness ==
  /\ Scan1Done
  /\ opts.Collapse1
  /\ Len(Scanned1) = 2
  /\ Scanned1[1].CopyNumber # Scanned1[2].CopyNumber
  /\ DOMAIN wig = {0}
  /\ count1 = 1

\* Dataset 2 without the reads whose strand and reference point an earlier read
\* of the table has.
DedupRows2(o, t2) ==
  LET keep == {i \in DOMAIN t2 : ~\E j \in 1..(i - 1) :
                 /\ t2[j].strand = t2[i].strand
                 /\ t2[j].rname = t2[i].rname
                 /\ PosOf(o.Pos2, t2[j]) = PosOf(o.Pos2, t2[i])}
      F[i \in 0..Len(t2)] ==
        IF i = 0 THEN <<>>
        ELSE IF i \in keep THEN Append(F[i - 1], t2[i]) ELSE F[i - 1]
  IN F[Len(t2)]
Skips2 ==
  /\ pc = "rows2"
  /\ rows # <<>>
  /\ opts.Collapse2
  /\ GetPos(opts.Pos2, rows[1], ori) \in visited

\* C7: with collapse2 on, a read of dataset 2 whose reference point was visited
\* in the same scan changes neither the histogram nor readCount2, so the result
\* is the one of dataset 2 with each position fed once.
C7_Collapse2Skips ==
  /\ [][Skips2 => (hist' = hist /\ count2' = count2)]_vars
  /\ [](res.sent /\ opts.Collapse2 =>
         LET one == RunJob([opts EXCEPT !.Collapse2 = FALSE], db1,
                           DedupRows2(opts, db2), Chr1)
         IN /\ res.hist = one.hist
            /\ res.count2 = one.count2
            /\ res.count1 = one.count1)
C7_Witness ==
  /\ res.sent
  /\ opts.Collapse2
  /\ Len(db2) = 2
  /\ db2[1].strand = db2[2].strand
  /\ PosOf(opts.Pos2, db2[1]) = PosOf(opts.Pos2, db2[2])
  /\ res.count2 = 1
  /\ \E k \in SpanRange : Get(res.hist, k) > 0

Counts2 ==
  /\ pc = "rows2"
  /\ rows # <<>>
  /\ ~(opts.Collapse2 /\ GetPos(opts.Pos2, rows[1], ori) \in visited)
  /\ rows' = Tail(rows)

\* C8: a read of dataset 2 that collapsing does not skip adds exactly 1 to
\* readCount2 whatever its copy number, and adds to histogram[k] the index weight
\* of the probed position, not multiplied by its copy number.
C8_Dataset2Unweighted ==
  [][Counts2 =>
      LET pos == GetPos(opts.Pos2, rows[1], ori)
      IN /\ count2' = count2 + 1
         /\ \A k \in SpanRange :
              Get(hist', k) = Get(hist, k)
                + (IF pos + k * ori >= 0 THEN Get(wig, pos + k * ori) ELSE 0)]_vars
C8_Witness ==
  /\ pc = "rows2"
  /\ Len(Scanned2) = 1
  /\ rows = <<>>
  /\ Scanned2[1].CopyNumber > 1
  /\ count2 = 1
  /\ \E k \in SpanRange : Get(hist, k) = 1

\* Dataset 1 with the strand column flipped.
FlipStrands(t) == [i \in DOMAIN t |-> [t[i] EXCEPT !.strand = -1 * @]]
OtherPos(p) == IF p = "5p" THEN "3p" ELSE "5p"
SameOverSpan(h, g) == \A k \in SpanRange : Get(h, k) = Get(g, k)
LongRead(r) == r.StartPos < r.StopPos

RECURSIVE SumOver(_, _)
SumOver(h, K) ==
  IF K = {} THEN 0
  ELSE LET k == CHOOSE x \in K : TRUE IN h[k] + SumOver(h, K \ {k})
SumHist(h) == SumOver(h, DOMAIN h)
\* The weight the index of pass i holds at pos after the scan of dataset 1.
WeightAt(i, pos) ==
  LET n == CountAt(PassRows1(i), opts.Pos1, pos)
  IN IF opts.Collapse1 /\ n > 0 THEN 1 ELSE n
SetMax(S) == IF S = {} THEN 0 ELSE CHOOSE x \in S : \A y \in S : y <= x
MaxWeight ==
  SetMax(UNION {{WeightAt(i, pos) : pos \in PosSet(PassRows1(i), opts.Pos1)} :
                  i \in DOMAIN Orientations})

\* C14 as stated: the histogram sent is non-negative at every offset and its sum
\* is at most readCount2 times the largest weight of a position of the index.
C14_SumBoundedByCount2 ==
  res.sent =>
    /\ \A k \in DOMAIN res.hist : res.hist[k] >= 0
    /\ SumHist(res.hist) <= res.count2 * MaxWeight
\* C14 as amended: the histogram sent is non-negative at every offset and its
\* sum is at most readCount2 times the number of probed offsets (2 * span + 1)
\* times the largest weight of a position of the index.
C14_SumBoundedByProbes ==
  res.sent =>
    /\ \A k \in DOMAIN res.hist : res.hist[k] >= 0
    /\ SumHist(res.hist) <= res.count2 * (2 * opts.Span + 1) * MaxWeight
C14_Witness ==
  /\ res.sent
  /\ res.count2 = 1
  /\ MaxWeight = 1
  /\ SumHist(res.hist) = 2

\* C15: a read of dataset 2 at pos leaves the entry of the histogram at
\* delta * ori as it was (absent if it was absent) for every delta of
\* [-span, span] with pos + delta < 0, and adds the weight of the index at
\* pos + delta to the entry for every other delta.
C15_NegativeProbesSkipped ==
  [][Counts2 =>
      LET pos == GetPos(opts.Pos2, rows[1], ori)
      IN \A d \in SpanRange :
           IF pos + d < 0
           THEN /\ (d * ori \in DOMAIN hist') = (d * ori \in DOMAIN hist)
                /\ Get(hist', d * ori) = Get(hist, d * ori)
           ELSE /\ d * ori \in DOMAIN hist'
                /\ hist'[d * ori] = Get(hist, d * ori) + Get(wig, pos + d)]_vars
C15_Witness ==
  /\ pc = "rows2"
  /\ rows = <<>>
  /\ oriIdx = 1
  /\ opts.Span = 1
  /\ Len(Scanned2) = 1
  /\ GetPos(opts.Pos2, Scanned2[1], ori) = 0
  /\ DOMAIN hist = {0, 1}
  /\ hist[1] > 0

\* No two reads of dataset 1 on the same strand share a reference point.
NoDup1 ==
  \A i, j \in DOMAIN db1 :
    (i < j /\ db1[i].strand = db1[j].strand /\ db1[i].rname = db1[j].rname) =>
      PosOf(opts.Pos1, db1[i]) # PosOf(opts.Pos1, db1[j])

\* C16: on a dataset 1 in which no two reads of a reference and strand share a
\* reference point, the result sent is the same with Collapse1 on and off.
C16_CollapseIdempotent ==
  (res.sent /\ NoDup1) =>
    LET f == RunJob([opts EXCEPT !.Collapse1 = ~@], db1, db2, Chr1)
    IN /\ SameOverSpan(res.hist, f.hist)
       /\ res.count1 = f.count1
       /\ res.count2 = f.count2
C16_Witness ==
  /\ res.sent
  /\ opts.Collapse1
  /\ NoDup1
  /\ Len(db1) = 2
  /\ db1[1].strand = db1[2].strand
  /\ db1[1].StartPos = db1[2].StartPos
  /\ res.count1 = 2
  /\ \E k \in SpanRange : Get(res.hist, k) > 0

\* The merge of main: for k, v := range hist { aggrHist[k] += v }, on a and b.
MergeOf(a, b) ==
  [k \in (DOMAIN a) \cup (DOMAIN b) |-> Get(a, k) + Get(b, k)]
SameReferencePoint == opts.Pos1 = opts.Pos2
NoCollapse == ~opts.Collapse1 /\ ~opts.Collapse2
CmpForward == CmpGoroutine(opts, db1, db2, Chr1, Forward)
CmpReverse == CmpGoroutine(opts, db1, db2, Chr1, Reverse)

\* C24: with no collapsing and one reference point for both datasets, the
\* histogram the worker of htsdb-relative-pos-distro sends for a reference is
\* the merge of the two histograms that the goroutines of
\* compare-read-relative-pos send for that reference, one per orientation, in
\* whichever order main receives them: the same keys with the same counts.
C24_PartitioningEquivalent ==
  (res.sent /\ NoCollapse /\ SameReferencePoint) =>
    /\ res.hist = MergeOf(MergeOf(EmptyMap, CmpForward), CmpReverse)
    /\ res.hist = MergeOf(MergeOf(EmptyMap, CmpReverse), CmpForward)
C24_Witness ==
  /\ res.sent
  /\ NoCollapse
  /\ SameReferencePoint
  /\ opts.Anti
  /\ \E k \in SpanRange : Get(CmpForward, k) > 0
  /\ \E k \in SpanRange : Get(CmpReverse, k) > 0
  /\ \E k \in SpanRange : Get(res.hist, k) > Get(CmpForward, k)

\* ---------------------------------------------- the scheduler: its actions
\* The options and the two tables of the runs of the scheduler: reference i
\* holds one forward read in db1 and i forward reads in db2.
SchedOpts ==
  [Span |-> MaxSpan, Collapse1 |-> FALSE, Collapse2 |-> FALSE, Anti |-> FALSE,
   Pos1 |-> "5p", Pos2 |-> "5p"]
SchedDB1 ==
  [i \in 1..(MaxRefs + 1) |->
     [rname |-> RefNames[i], strand |-> Forward, StartPos |-> 0, StopPos |-> 0,
      CopyNumber |-> 1]]
RECURSIVE SchedRows2(_, _)
SchedRows2(i, n) ==
  IF n = 0 THEN <<>>
  ELSE Append(SchedRows2(i, n - 1),
              [rname |-> RefNames[i], strand |-> Forward, StartPos |-> n % 2,
               StopPos |-> 1, CopyNumber |-> 1])
RECURSIVE SchedDB2Upto(_)
SchedDB2Upto(i) == IF i = 0 THEN <<>> ELSE SchedDB2Upto(i - 1) \o SchedRows2(i, i)
SchedDB2 == SchedDB2Upto(MaxRefs + 1)

\* What the worker sends for job j when every read succeeds.
\* The values of --span of the runs of the scheduler; no version tests the sign.
SchedSpans == {-1, MaxSpan}
JobResults ==
  [s \in SchedSpans |->
     [j \in 1..MaxRefs |->
        LET r == RunJob([SchedOpts EXCEPT !.Span = s], SchedDB1, SchedDB2, RefNames[j])
        IN [job |-> j, hist |-> r.hist, count1 |-> r.count1, count2 |-> r.count2]]]
JobResult(j) == computed.full[opts.Span][j]
\* What it sends when the cursor on db1 stops on an error before its first row.
TruncatedResults ==
  [s \in SchedSpans |->
     [j \in 1..MaxRefs |->
        LET r == RunJob([SchedOpts EXCEPT !.Span = s], <<>>, SchedDB2, RefNames[j])
        IN [job |-> j, hist |-> r.hist, count1 |-> r.count1, count2 |-> r.count2]]]
TruncatedResult(j) == computed.truncated[opts.Span][j]

\* The merge with = in place of +=.
MergeHistOverwrite(aggr, h) ==
  [k \in (DOMAIN aggr) \cup (DOMAIN h) |-> IF k \in DOMAIN h THEN h[k] ELSE aggr[k]]

\* aggrHist after: for k, v := range res.hist { aggrHist[k] += v }
MergeHist(aggr, h) ==
  [k \in (DOMAIN aggr) \cup (DOMAIN h) |-> Get(aggr, k) + Get(h, k)]

HeaderRow ==
  [kind |-> "header", ref |-> "", pos |-> 0, pairs |-> 0, readCount1 |-> 0,
   readCount2 |-> 0]
\* HistRows with i < Span for the test of the loop.
HistRowsHalfOpen(name, h, c1, c2, span) ==
  [i \in 1..(2 * span) |->
     [kind |-> "row", ref |-> name, pos |-> i - span - 1,
      pairs |-> Get(h, i - span - 1), readCount1 |-> c1, readCount2 |-> c2]]
\* The rows printed by: for i := -Span; i <= Span; i++ { fmt.Printf(...) }
HistRows(name, h, c1, c2, span) ==
  [i \in 1..(2 * span + 1) |->
     [kind |-> "row", ref |-> name, pos |-> i - span - 1,
      pairs |-> Get(h, i - span - 1), readCount1 |-> c1, readCount2 |-> c2]]
ResultRows(r) == HistRows(RefNames[r.job], r.hist, r.count1, r.count2, opts.Span)

\* The aggregate of v0.4: the loop over allResults.
RECURSIVE MergeAll(_)
MergeAll(rs) ==
  IF rs = <<>> THEN [hist |-> EmptyMap, count1 |-> 0, count2 |-> 0]
  ELSE LET a == MergeAll(SubSeq(rs, 1, Len(rs) - 1))
           r == rs[Len(rs)]
       IN [hist |-> MergeHist(a.hist, r.hist), count1 |-> a.count1 + r.count1,
           count2 |-> a.count2 + r.count2]
RECURSIVE AllRows(_)
AllRows(rs) == IF rs = <<>> THEN <<>> ELSE ResultRows(rs[1]) \o AllRows(Tail(rs))

\* The process is alive, past its start-up and not at its end.
StartUp == {"parse", "refs", "deploy"}
Running == ~exited /\ mpc \notin StartUp /\ mpc # "done"

SchedInit ==
  /\ version \in Versions
  /\ groupRef \in BOOLEAN
  /\ nrefs \in 0..MaxRefs
  /\ refsErr = FALSE
  /\ nextJob = 1
  /\ jobs = <<>>
  /\ jobsClosed = FALSE
  /\ pool = Workers
  /\ results = <<>>
  /\ resultsClosed = FALSE
  /\ mpc = IF version = "0.4" THEN "enqueue" ELSE "start"
  /\ jobCnt = 0
  /\ allResults = <<>>
  /\ aggrHist = EmptyMap
  /\ totalCount1 = 0
  /\ totalCount2 = 0
  /\ out = <<>>
  /\ exited = FALSE
  /\ faults = 0
  /\ received = [j \in 1..nrefs |-> 0]
  /\ arrived = <<>>
  \* no single worker is studied
  /\ opts = SchedOpts
  /\ db1 = <<>>
  /\ db2 = <<>>
  /\ pc = "idle"
  /\ oriIdx = 1
  /\ wig = EmptyMap
  /\ visited = {}
  /\ hist = EmptyMap
  /\ count1 = 0
  /\ count2 = 0
  /\ rows = <<>>
  /\ res = NoResult
  /\ truncated = FALSE
  /\ PosIdle
  /\ RefsIdle
  /\ ReaderIdle
  /\ computed = [full |-> JobResults, truncated |-> TruncatedResults]
  /\ SamIdle
  /\ OverlapIdle
  /\ OwnIdle

\* v0.6, producer goroutine: jobs <- job{...}, received by worker w (the channel
\* is unbuffered: the send and the receive are one step).
V06_SendJob(w) ==
  /\ Running
  /\ version = "0.6"
  /\ nextJob <= nrefs
  /\ w.state = "idle"
  /\ pool' = Moved(w, Worker("busy", nextJob, NoRes))
  /\ received' = [received EXCEPT ![nextJob] = @ + 1]
  /\ nextJob' = nextJob + 1
  /\ UNCHANGED <<version, refsErr, groupRef, nrefs, jobs, jobsClosed, results,
                 resultsClosed, mpc, jobCnt, allResults, aggrHist, totalCount1,
                 totalCount2, out, exited, faults, arrived>>
  /\ UNCHANGED <<wvars, pvars, rvars, dvars, cvars, ovars, xvars, mvars>>

\* The producer goroutine ending without close(jobs).
V06_NoCloseJobs ==
  /\ Running
  /\ version = "0.6"
  /\ nextJob = nrefs + 1
  /\ ~jobsClosed
  /\ UNCHANGED <<version, refsErr, groupRef, nrefs, nextJob, jobs, jobsClosed, pool,
                 results, resultsClosed, mpc, jobCnt, allResults, aggrHist, totalCount1,
                 totalCount2, out, exited, faults, received, arrived>>
  /\ UNCHANGED <<wvars, pvars, rvars, dvars, cvars, ovars, xvars, mvars>>

\* v0.6, producer goroutine: close(jobs) after the last job.
V06_CloseJobs ==
  /\ Running
  /\ version = "0.6"
  /\ nextJob = nrefs + 1
  /\ ~jobsClosed
  /\ jobsClosed' = TRUE
  /\ UNCHANGED <<version, refsErr, groupRef, nrefs, nextJob, jobs, pool, results,
                 resultsClosed, mpc, jobCnt, allResults, aggrHist, totalCount1,
                 totalCount2, out, exited, faults, received, arrived>>
  /\ UNCHANGED <<wvars, pvars, rvars, dvars, cvars, ovars, xvars, mvars>>

\* The body of the worker's loop for the job at hand, every read succeeding.
Compute(w) ==
  /\ Running
  /\ w.state = "busy"
  /\ pool' = Moved(w, Worker("send", w.job, JobResult(w.job)))
  /\ UNCHANGED <<version, refsErr, groupRef, nrefs, nextJob, jobs, jobsClosed, results,
                 resultsClosed, mpc, jobCnt, allResults, aggrHist, totalCount1,
                 totalCount2, out, exited, faults, received, arrived>>
  /\ UNCHANGED <<wvars, pvars, rvars, dvars, cvars, ovars, xvars, mvars>>

\* The body of the worker's loop, a read failing with an error the worker
\* tests: log.Fatal ends the process.
ComputeFatal(w) ==
  /\ Running
  /\ w.state = "busy"
  /\ exited' = TRUE
  /\ faults' = faults + 1
  /\ faults < MaxFaults
  /\ UNCHANGED <<version, refsErr, groupRef, nrefs, nextJob, jobs, jobsClosed, pool,
                 results, resultsClosed, mpc, jobCnt, allResults, aggrHist, totalCount1,
                 totalCount2, out, received, arrived>>
  /\ UNCHANGED <<wvars, pvars, rvars, dvars, cvars, ovars, xvars, mvars>>

\* The body of the worker's loop, rows1.Next() returning false on an error.
ComputeTruncated(w) ==
  /\ Running
  /\ w.state = "busy"
  /\ faults < MaxFaults
  /\ faults' = faults + 1
  /\ pool' = Moved(w, Worker("send", w.job, TruncatedResult(w.job)))
  /\ UNCHANGED <<version, refsErr, groupRef, nrefs, nextJob, jobs, jobsClosed, results,
                 resultsClosed, mpc, jobCnt, allResults, aggrHist, totalCount1,
                 totalCount2, out, exited, received, arrived>>
  /\ UNCHANGED <<wvars, pvars, rvars, dvars, cvars, ovars, xvars, mvars>>

\* v0.6, main: the header of the grouped table, then the loop on results.
V06_MainStart ==
  /\ Running
  /\ version = "0.6"
  /\ mpc = "start"
  /\ out' = IF groupRef THEN Append(out, HeaderRow) ELSE out
  /\ mpc' = "range"
  /\ UNCHANGED <<version, refsErr, groupRef, nrefs, nextJob, jobs, jobsClosed, pool,
                 results, resultsClosed, jobCnt, allResults, aggrHist, totalCount1,
                 totalCount2, exited, faults, received, arrived>>
  /\ UNCHANGED <<wvars, pvars, rvars, dvars, cvars, ovars, xvars, mvars>>

\* v0.6: results <- result of worker w, received by main (unbuffered), and the
\* body of main's loop for it.
V06_SendResult(w) ==
  /\ Running
  /\ version = "0.6"
  /\ w.state = "send"
  /\ mpc = "range"
  /\ LET r == w.res
     IN /\ arrived' = Append(arrived, r.job)
        /\ IF groupRef
           THEN /\ out' = out \o ResultRows(r)
                /\ UNCHANGED <<aggrHist, totalCount1, totalCount2>>
           ELSE /\ aggrHist' = MergeHist(aggrHist, r.hist)
                /\ totalCount1' = totalCount1 + r.count1
                /\ totalCount2' = totalCount2 + r.count2
                /\ out' = out
  /\ pool' = Moved(w, IdleWorker)
  /\ UNCHANGED <<version, refsErr, groupRef, nrefs, nextJob, jobs, jobsClosed, results,
                 resultsClosed, mpc, jobCnt, allResults, exited, faults, received>>
  /\ UNCHANGED <<wvars, pvars, rvars, dvars, cvars, ovars, xvars, mvars>>

\* The worker's range over jobs ends: jobs is closed and empty.
WorkerReturn(w) ==
  /\ Running
  /\ w.state = "idle"
  /\ jobsClosed
  /\ jobs = <<>>
  /\ pool' = Moved(w, Worker("exit", 0, NoRes))
  /\ UNCHANGED <<version, refsErr, groupRef, nrefs, nextJob, jobs, jobsClosed, results,
                 resultsClosed, mpc, jobCnt, allResults, aggrHist, totalCount1,
                 totalCount2, out, exited, faults, received, arrived>>
  /\ UNCHANGED <<wvars, pvars, rvars, dvars, cvars, ovars, xvars, mvars>>

\* close(results) without wg.Wait().
V06_CloseResultsEarly ==
  /\ Running
  /\ version = "0.6"
  /\ ~resultsClosed
  /\ resultsClosed' = TRUE
  /\ UNCHANGED <<version, refsErr, groupRef, nrefs, nextJob, jobs, jobsClosed, pool,
                 results, mpc, jobCnt, allResults, aggrHist, totalCount1, totalCount2,
                 out, exited, faults, received, arrived>>
  /\ UNCHANGED <<wvars, pvars, rvars, dvars, cvars, ovars, xvars, mvars>>

\* v0.6: wg.Wait() returns; close(results).
V06_CloseResults ==
  /\ Running
  /\ version = "0.6"
  /\ \A w \in DOMAIN pool : w.state = "exit"
  /\ ~resultsClosed
  /\ resultsClosed' = TRUE
  /\ UNCHANGED <<version, refsErr, groupRef, nrefs, nextJob, jobs, jobsClosed, pool,
                 results, mpc, jobCnt, allResults, aggrHist, totalCount1, totalCount2,
                 out, exited, faults, received, arrived>>
  /\ UNCHANGED <<wvars, pvars, rvars, dvars, cvars, ovars, xvars, mvars>>

\* v0.6, main: the range over results ends; the aggregate table is printed.
V06_Report ==
  /\ Running
  /\ version = "0.6"
  /\ mpc = "range"
  /\ resultsClosed
  /\ out' = IF groupRef THEN out
            ELSE Append(out, HeaderRow)
                 \o HistRows("", aggrHist, totalCount1, totalCount2, opts.Span)
  /\ mpc' = "done"
  /\ UNCHANGED <<version, refsErr, groupRef, nrefs, nextJob, jobs, jobsClosed, pool,
                 results, resultsClosed, jobCnt, allResults, aggrHist, totalCount1,
                 totalCount2, exited, faults, received, arrived>>
  /\ UNCHANGED <<wvars, pvars, rvars, dvars, cvars, ovars, xvars, mvars>>

\* v0.4, main: jobCnt++; jobs <- job{...} into the buffer of jobs.
V04_SendJob ==
  /\ Running
  /\ version = "0.4"
  /\ mpc = "enqueue"
  /\ nextJob <= nrefs
  /\ Len(jobs) < JobsCap
  /\ jobs' = Append(jobs, nextJob)
  /\ nextJob' = nextJob + 1
  /\ jobCnt' = jobCnt + 1
  /\ UNCHANGED <<version, refsErr, groupRef, nrefs, jobsClosed, pool, results,
                 resultsClosed, mpc, allResults, aggrHist, totalCount1, totalCount2,
                 out, exited, faults, received, arrived>>
  /\ UNCHANGED <<wvars, pvars, rvars, dvars, cvars, ovars, xvars, mvars>>

\* v0.4, main: close(jobs) after the loop over refs.
V04_CloseJobs ==
  /\ Running
  /\ version = "0.4"
  /\ mpc = "enqueue"
  /\ nextJob = nrefs + 1
  /\ jobsClosed' = TRUE
  /\ mpc' = "collect"
  /\ UNCHANGED <<version, refsErr, groupRef, nrefs, nextJob, jobs, pool, results,
                 resultsClosed, jobCnt, allResults, aggrHist, totalCount1, totalCount2,
                 out, exited, faults, received, arrived>>
  /\ UNCHANGED <<wvars, pvars, rvars, dvars, cvars, ovars, xvars, mvars>>

\* v0.4, worker w: receives the oldest job of the buffer.
V04_TakeJob(w) ==
  /\ Running
  /\ version = "0.4"
  /\ w.state = "idle"
  /\ jobs # <<>>
  /\ pool' = Moved(w, Worker("busy", jobs[1], NoRes))
  /\ received' = [received EXCEPT ![jobs[1]] = @ + 1]
  /\ jobs' = Tail(jobs)
  /\ UNCHANGED <<version, refsErr, groupRef, nrefs, nextJob, jobsClosed, results,
                 resultsClosed, mpc, jobCnt, allResults, aggrHist, totalCount1,
                 totalCount2, out, exited, faults, arrived>>
  /\ UNCHANGED <<wvars, pvars, rvars, dvars, cvars, ovars, xvars, mvars>>

\* v0.4, worker w: results <- result into the buffer of results.
V04_SendResult(w) ==
  /\ Running
  /\ version = "0.4"
  /\ w.state = "send"
  /\ Len(results) < ResultsCap
  /\ results' = Append(results, w.res)
  /\ pool' = Moved(w, IdleWorker)
  /\ UNCHANGED <<version, refsErr, groupRef, nrefs, nextJob, jobs, jobsClosed,
                 resultsClosed, mpc, jobCnt, allResults, aggrHist, totalCount1,
                 totalCount2, out, exited, faults, received, arrived>>
  /\ UNCHANGED <<wvars, pvars, rvars, dvars, cvars, ovars, xvars, mvars>>

\* v0.4, main: allResults = append(allResults, <-results)
V04_Collect ==
  /\ Running
  /\ version = "0.4"
  /\ mpc = "collect"
  /\ Len(allResults) < jobCnt
  /\ results # <<>>
  /\ allResults' = Append(allResults, results[1])
  /\ arrived' = Append(arrived, results[1].job)
  /\ results' = Tail(results)
  /\ UNCHANGED <<version, refsErr, groupRef, nrefs, nextJob, jobs, jobsClosed, pool,
                 resultsClosed, mpc, jobCnt, aggrHist, totalCount1, totalCount2, out,
                 exited, faults, received>>
  /\ UNCHANGED <<wvars, pvars, rvars, dvars, cvars, ovars, xvars, mvars>>

\* v0.4, main: the loop of collection is over; the table is printed.
V04_Report ==
  /\ Running
  /\ version = "0.4"
  /\ mpc = "collect"
  /\ Len(allResults) = jobCnt
  /\ LET a == MergeAll(allResults)
     IN IF groupRef
        THEN /\ out' = Append(out, HeaderRow) \o AllRows(allResults)
             /\ UNCHANGED <<aggrHist, totalCount1, totalCount2>>
        ELSE /\ aggrHist' = a.hist
             /\ totalCount1' = a.count1
             /\ totalCount2' = a.count2
             /\ out' = Append(out, HeaderRow)
                       \o HistRows("", a.hist, a.count1, a.count2, opts.Span)
  /\ mpc' = "done"
  /\ UNCHANGED <<version, refsErr, groupRef, nrefs, nextJob, jobs, jobsClosed, pool,
                 results, resultsClosed, jobCnt, allResults, exited, faults, received,
                 arrived>>
  /\ UNCHANGED <<wvars, pvars, rvars, dvars, cvars, ovars, xvars, mvars>>

SchedNext ==
  \/ \E w \in DOMAIN pool : V06_SendJob(w)
  \/ V06_CloseJobs
  \/ \E w \in DOMAIN pool : Compute(w)
  \/ \E w \in DOMAIN pool : ComputeFatal(w)
  \/ \E w \in DOMAIN pool : ComputeTruncated(w)
  \/ V06_MainStart
  \/ \E w \in DOMAIN pool : V06_SendResult(w)
  \/ \E w \in DOMAIN pool : WorkerReturn(w)
  \/ V06_CloseResults
  \/ V06_Report
  \/ V04_SendJob
  \/ V04_CloseJobs
  \/ \E w \in DOMAIN pool : V04_TakeJob(w)
  \/ \E w \in DOMAIN pool : V04_SendResult(w)
  \/ V04_Collect
  \/ V04_Report
SpecSched == SchedInit /\ [][SchedNext]_vars

\* ------------------------------------ the streaming scheduler of v0.6 alone
\* The goroutines of v0.6 with the scheduling of the Go runtime: a goroutine
\* that can take a step is not left waiting for ever.
StreamInit == SchedInit /\ version = "0.6"
StreamNext ==
  \/ \E w \in DOMAIN pool : V06_SendJob(w)
  \/ V06_CloseJobs
  \/ \E w \in DOMAIN pool : Compute(w)
  \/ \E w \in DOMAIN pool : ComputeFatal(w)
  \/ \E w \in DOMAIN pool : ComputeTruncated(w)
  \/ V06_MainStart
  \/ \E w \in DOMAIN pool : V06_SendResult(w)
  \/ \E w \in DOMAIN pool : WorkerReturn(w)
  \/ V06_CloseResults
  \/ V06_Report
SpecStream == StreamInit /\ [][StreamNext]_vars /\ WF_vars(StreamNext)

AllWorkersExited == \A w \in DOMAIN pool : w.state = "exit"
\* A worker is at its send on results, or has yet to reach it.
MaySend == \E w \in DOMAIN pool : w.state \in {"idle", "busy", "send"}

\* C28: every run of v0.6 ends, by the return of main after every worker has
\* returned or by log.Fatal, whatever the number of references; results is
\* closed only after the last worker has returned, is closed once and stays
\* closed, and no worker is at a send, or has one ahead, on the closed channel;
\* when main returns the jobs were all sent and their results received.
C28_StreamTerminates ==
  /\ <>(exited \/ (mpc = "done" /\ AllWorkersExited /\ resultsClosed))
  /\ [](resultsClosed => (AllWorkersExited /\ ~MaySend /\ jobsClosed))
  /\ [](resultsClosed => ~ENABLED V06_CloseResults)
  /\ [][resultsClosed => resultsClosed']_vars
  /\ [](mpc = "done" => (nextJob = nrefs + 1 /\ Len(arrived) = nrefs))
C28_Witness ==
  /\ mpc = "done"
  /\ ~exited
  /\ nrefs > MaxConc
  /\ faults = 0
  /\ AllWorkersExited
  /\ resultsClosed
  /\ Len(arrived) = nrefs
\* The same with no reference: the workers return without a job.
C28_EmptyWitness ==
  /\ mpc = "done"
  /\ nrefs = 0
  /\ AllWorkersExited
  /\ resultsClosed
  /\ arrived = <<>>

\* C9: a worker whose cursor stopped on a storage error in the middle of a scan
\* never sends a result.
C9_NoResultFromTruncatedScan == res.sent => ~truncated

\* ---------------------------------------------- properties of the scheduler
Jobs == 1..nrefs
Times(sq, j) == Cardinality({i \in DOMAIN sq : sq[i] = j})

\* C1: every enumerated reference is processed exactly once: a job is received
\* by at most one worker, main receives at most one result per received job, and
\* when main is done it has received exactly one result for every reference.
C1_EachJobOnce ==
  /\ \A j \in Jobs : received[j] <= 1 /\ Times(arrived, j) <= received[j]
  /\ mpc = "done" =>
       /\ Len(arrived) = nrefs
       /\ \A j \in Jobs : received[j] = 1 /\ Times(arrived, j) = 1
C1_Witness ==
  /\ version = "0.6"
  /\ mpc = "done"
  /\ nrefs > MaxConc
  /\ arrived[1] # 1

\* C2: in v0.4 main is never blocked sending a job while every worker is blocked
\* sending a result.
C2_NoSendDeadlock ==
  ~ /\ version = "0.4"
    /\ ~exited
    /\ mpc = "enqueue"
    /\ nextJob <= nrefs
    /\ Len(jobs) = JobsCap
    /\ Len(results) = ResultsCap
    /\ \A w \in DOMAIN pool : w.state = "send"

\* The sum over the references 1..n, in that order, of the results of their jobs.
RECURSIVE SumAt(_, _)
SumAt(n, k) == IF n = 0 THEN 0 ELSE SumAt(n - 1, k) + Get(JobResult(n).hist, k)
RECURSIVE SumCount1(_)
SumCount1(n) == IF n = 0 THEN 0 ELSE SumCount1(n - 1) + JobResult(n).count1
RECURSIVE SumCount2(_)
SumCount2(n) == IF n = 0 THEN 0 ELSE SumCount2(n - 1) + JobResult(n).count2
AggregateDone == mpc = "done" /\ ~groupRef /\ faults = 0

\* C3: whatever the order in which the results arrive, the final aggregate
\* histogram and the two summed read counts are those of the merge of the
\* results in the order of the references, and so are the rows printed.
C3_MergeOrderIndependent ==
  AggregateDone =>
    /\ \A k \in DOMAIN aggrHist \cup ((-SchedOpts.Span)..SchedOpts.Span) :
         Get(aggrHist, k) = SumAt(nrefs, k)
    /\ totalCount1 = SumCount1(nrefs)
    /\ totalCount2 = SumCount2(nrefs)
    /\ \A i \in DOMAIN out : out[i].kind = "row" =>
         /\ out[i].pairs = SumAt(nrefs, out[i].pos)
         /\ out[i].readCount1 = SumCount1(nrefs)
         /\ out[i].readCount2 = SumCount2(nrefs)
C3_Witness ==
  /\ AggregateDone
  /\ version = "0.6"
  /\ Len(arrived) >= 3
  /\ arrived[1] > arrived[2]
  /\ Get(aggrHist, 0) > 1

\* C10: a run that a storage error of a partition has aborted has printed no
\* histogram row, in aggregate mode and in grouped mode.
C10_NoRowsBeforeAbort ==
  exited => \A i \in DOMAIN out : out[i].kind # "row"

\* A job is still to be sent, in the buffer of jobs, being processed, or its
\* result not yet received by main.
Pending ==
  \/ nextJob <= nrefs
  \/ jobs # <<>>
  \/ \E w \in DOMAIN pool : w.state \in {"busy", "send"}
  \/ results # <<>>
  \/ Len(arrived) < nrefs
PrintedRow == \E i \in DOMAIN out : out[i].kind = "row"

\* C27: no row of the histogram is printed while a job is still to be sent,
\* queued, being processed, or its result not yet received by main, in aggregate
\* mode and in grouped mode.
C27_ReportAfterAllConsumed == PrintedRow => ~Pending

\* The rows of a table on one reference.
RefOnly(t, name) == SelectSeq(t, LAMBDA r : r.rname = name)
\* What the records of reference j alone give: the pairs counted on them, and
\* their numbers; the same with no record of dataset 1 scanned.
OwnResults ==
  [j \in 1..MaxRefs |->
     LET t1 == RefOnly(SchedDB1, RefNames[j])
         t2 == RefOnly(SchedDB2, RefNames[j])
     IN [hist |-> [k \in (-SchedOpts.Span)..SchedOpts.Span |->
                     PairCount(SchedOpts, t1, t2, RefNames[j], k)],
         count1 |-> Len(t1), count2 |-> Len(t2)]]
OwnTruncatedResults ==
  [j \in 1..MaxRefs |->
     [hist |-> EmptyMap, count1 |-> 0,
      count2 |-> Len(RefOnly(SchedDB2, RefNames[j]))]]
BlockLen == 2 * SchedOpts.Span + 1
OwnRow(r, j, i) ==
  [kind |-> "row", ref |-> RefNames[j], pos |-> i - SchedOpts.Span - 1,
   pairs |-> Get(r.hist, i - SchedOpts.Span - 1), readCount1 |-> r.count1,
   readCount2 |-> r.count2]
OwnBlocks ==
  [j \in 1..MaxRefs |-> [i \in 1..BlockLen |-> OwnRow(OwnResults[j], j, i)]]
OwnTruncatedBlocks ==
  [j \in 1..MaxRefs |-> [i \in 1..BlockLen |-> OwnRow(OwnTruncatedResults[j], j, i)]]

\* C20: in grouped mode the table is the header followed by one block of
\* 2 * span + 1 consecutive rows per result received, in the order of
\* arrival; the rows of a block carry the name of one reference and the
\* histogram and the two counts that the records of that reference alone give;
\* at the end every enumerated reference has exactly one block.
C20_GroupedBlocksPerReference ==
  (groupRef /\ out # <<>>) =>
    /\ out[1] = HeaderRow
    /\ Len(out) = 1 + Len(arrived) * BlockLen
    /\ \A b \in DOMAIN arrived :
         LET block == SubSeq(out, 2 + (b - 1) * BlockLen, 1 + b * BlockLen)
         IN \/ block = OwnBlocks[arrived[b]]
            \/ faults > 0 /\ block = OwnTruncatedBlocks[arrived[b]]
    /\ mpc = "done" =>
         \A j \in Jobs : Cardinality({b \in DOMAIN arrived : arrived[b] = j}) = 1
C20_Witness ==
  /\ groupRef
  /\ version = "0.6"
  /\ mpc = "done"
  /\ faults = 0
  /\ nrefs >= 2
  /\ arrived[1] = 2
  /\ arrived[2] = 1
  /\ out[2].ref = "chr2"
  /\ out[2].readCount2 = 2
  /\ out[2 + BlockLen].ref = "chr1"
  /\ out[2 + BlockLen].readCount2 = 1

\* ------------------------------------- the tools from their command line on
\* htsdb-relative-pos-distro v0.4 and v0.6 and compare-read-relative-pos v0.1,
\* from the parsing of the options to the table: the start-up of main, then the
\* scheduler above (v0.4, v0.6) or one goroutine per reference and orientation
\* (compare-read-relative-pos).
Compare == "compare-0.1"
MainVersions == Versions \cup {Compare}
\* Largest number of references of the catalog.
MaxMainRefs == 2
\* The options of a run: --span of either sign, a reference point that is or is
\* not one of the two the tools know.
MainOpts ==
  {[SchedOpts EXCEPT !.Span = s, !.Pos1 = p] : s \in SchedSpans, p \in {"5p", "xx"}}

MainInit ==
  /\ version \in MainVersions
  /\ groupRef \in (IF version = Compare THEN {FALSE} ELSE BOOLEAN)
  /\ opts \in MainOpts
  /\ nrefs = 0
  /\ refsErr = FALSE
  /\ nextJob = 1
  /\ jobs = <<>>
  /\ jobsClosed = FALSE
  /\ pool = EmptyBag
  /\ results = <<>>
  /\ resultsClosed = FALSE
  /\ mpc = "parse"
  /\ jobCnt = 0
  /\ allResults = <<>>
  /\ aggrHist = EmptyMap
  /\ totalCount1 = 0
  /\ totalCount2 = 0
  /\ out = <<>>
  /\ exited = FALSE
  /\ faults = 0
  /\ received = <<>>
  /\ arrived = <<>>
  /\ db1 = <<>>
  /\ db2 = <<>>
  /\ pc = "idle"
  /\ oriIdx = 1
  /\ wig = EmptyMap
  /\ visited = {}
  /\ hist = EmptyMap
  /\ count1 = 0
  /\ count2 = 0
  /\ rows = <<>>
  /\ res = NoResult
  /\ truncated = FALSE
  /\ PosIdle
  /\ RefsIdle
  /\ ReaderIdle
  /\ computed = [full |-> JobResults, truncated |-> TruncatedResults]
  /\ SamIdle
  /\ OverlapIdle
  /\ OwnIdle

\* The options are parsed and tested: a reference point that is not 5p or 3p
\* ends the process (p.Fail in v0.6, the Enum of the flag in the others); the
\* sign of --span is not tested.
Main_Parse ==
  /\ ~exited
  /\ mpc = "parse"
  /\ IF opts.Pos1 \in Positions /\ opts.Pos2 \in Positions
     THEN mpc' = "refs" /\ exited' = exited
     ELSE mpc' = mpc /\ exited' = TRUE
  /\ UNCHANGED <<version, refsErr, groupRef, nrefs, nextJob, jobs, jobsClosed, pool,
                 results, resultsClosed, jobCnt, allResults, aggrHist, totalCount1,
                 totalCount2, out, faults, received, arrived>>
  /\ UNCHANGED <<wvars, pvars, rvars, dvars, cvars, ovars, xvars, mvars>>

\* sqlx.Connect returns an error: log.Fatal, or panic.
Main_ConnectFail ==
  /\ ~exited
  /\ mpc = "refs"
  /\ exited' = TRUE
  /\ UNCHANGED <<version, refsErr, groupRef, nrefs, nextJob, jobs, jobsClosed, pool,
                 results, resultsClosed, mpc, jobCnt, allResults, aggrHist,
                 totalCount1, totalCount2, out, faults, received, arrived>>
  /\ UNCHANGED <<wvars, pvars, rvars, dvars, cvars, ovars, xvars, mvars>>

\* The jobs a list of n references gives: one per reference, or one per
\* reference and orientation.
NJobs(n) == IF version = Compare THEN 2 * n ELSE n

\* SelectReferences returns the n references of the catalog.
Main_ReadRefs(n) ==
  /\ ~exited
  /\ mpc = "refs"
  /\ nrefs' = n
  /\ received' = [j \in 1..NJobs(n) |-> 0]
  /\ mpc' = "deploy"
  /\ UNCHANGED <<version, refsErr, groupRef, nextJob, jobs, jobsClosed, pool, results,
                 resultsClosed, jobCnt, allResults, aggrHist, totalCount1, totalCount2,
                 out, exited, faults, arrived>>
  /\ UNCHANGED <<wvars, pvars, rvars, dvars, cvars, ovars, xvars, mvars>>

\* SelectReferences returns an error, with the n references it had read (none
\* if the query could not be built): log.Fatal in v0.4 and v0.6; in
\* compare-read-relative-pos err is assigned and never read.
Main_ReadRefsFail(n) ==
  /\ ~exited
  /\ mpc = "refs"
  /\ refsErr' = TRUE
  /\ IF version = Compare
     THEN /\ nrefs' = n
          /\ received' = [j \in 1..NJobs(n) |-> 0]
          /\ mpc' = "deploy"
          /\ exited' = exited
     ELSE /\ exited' = TRUE
          /\ UNCHANGED <<nrefs, received, mpc>>
  /\ UNCHANGED <<version, groupRef, nextJob, jobs, jobsClosed, pool, results,
                 resultsClosed, jobCnt, allResults, aggrHist, totalCount1, totalCount2,
                 out, faults, arrived>>
  /\ UNCHANGED <<wvars, pvars, rvars, dvars, cvars, ovars, xvars, mvars>>

\* The channels are made and the goroutines of the pool started (v0.4, v0.6);
\* compare-read-relative-pos has no pool.
Main_Deploy ==
  /\ ~exited
  /\ mpc = "deploy"
  /\ pool' = IF version = Compare THEN pool ELSE Workers
  /\ mpc' = IF version = "0.4" THEN "enqueue"
            ELSE IF version = "0.6" THEN "start" ELSE "spawn"
  /\ UNCHANGED <<version, refsErr, groupRef, nrefs, nextJob, jobs, jobsClosed,
                 results, resultsClosed, jobCnt, allResults, aggrHist, totalCount1,
                 totalCount2, out, exited, faults, received, arrived>>
  /\ UNCHANGED <<wvars, pvars, rvars, dvars, cvars, ovars, xvars, mvars>>

\* The reference and the orientation of job j of compare-read-relative-pos: the
\* two loops, on refs and on {Forward, Reverse}.
CmpRef(j) == (j + 1) \div 2
CmpOri(j) == Orientations[2 - (j % 2)]
\* The histogram the goroutine of job j sends when every read succeeds.
CmpHists ==
  [s \in SchedSpans |->
     [j \in 1..(2 * (MaxMainRefs + 1)) |->
        CmpGoroutine([SchedOpts EXCEPT !.Span = s], SchedDB1, SchedDB2,
                     RefNames[CmpRef(j)], CmpOri(j))]]
CmpResult(j) == [job |-> j, hist |-> CmpHists[opts.Span][j], count1 |-> 0, count2 |-> 0]
\* The same when rows1.Next() returns false on an error before the first row.
CmpTruncatedHists ==
  [s \in SchedSpans |->
     [j \in 1..(2 * (MaxMainRefs + 1)) |->
        CmpGoroutine([SchedOpts EXCEPT !.Span = s], <<>>, SchedDB2,
                     RefNames[CmpRef(j)], CmpOri(j))]]
CmpTruncatedResult(j) ==
  [job |-> j, hist |-> CmpTruncatedHists[opts.Span][j], count1 |-> 0, count2 |-> 0]

\* compare-read-relative-pos, main: wg.Add(1); go func(ori, ref) {...}(ori, ref)
Cmp_Spawn ==
  /\ Running
  /\ version = Compare
  /\ mpc = "spawn"
  /\ nextJob <= NJobs(nrefs)
  /\ pool' = pool (+) SetToBag({Worker("run", nextJob, NoRes)})
  /\ received' = [received EXCEPT ![nextJob] = @ + 1]
  /\ nextJob' = nextJob + 1
  /\ UNCHANGED <<version, refsErr, groupRef, nrefs, jobs, jobsClosed, results,
                 resultsClosed, mpc, jobCnt, allResults, aggrHist, totalCount1,
                 totalCount2, out, exited, faults, arrived>>
  /\ UNCHANGED <<wvars, pvars, rvars, dvars, cvars, ovars, xvars, mvars>>

\* compare-read-relative-pos, main: the two loops are over; the goroutine that
\* waits for the others is started and main ranges over hists.
Cmp_Range ==
  /\ Running
  /\ version = Compare
  /\ mpc = "spawn"
  /\ nextJob = NJobs(nrefs) + 1
  /\ mpc' = "range"
  /\ UNCHANGED <<version, refsErr, groupRef, nrefs, nextJob, jobs, jobsClosed, pool,
                 results, resultsClosed, jobCnt, allResults, aggrHist, totalCount1,
                 totalCount2, out, exited, faults, received, arrived>>
  /\ UNCHANGED <<wvars, pvars, rvars, dvars, cvars, ovars, xvars, mvars>>

\* The body of the goroutine up to its send, every read succeeding.
Cmp_Compute(w) ==
  /\ Running
  /\ w.state = "run"
  /\ pool' = Moved(w, Worker("emit", w.job, CmpResult(w.job)))
  /\ UNCHANGED <<version, refsErr, groupRef, nrefs, nextJob, jobs, jobsClosed,
                 results, resultsClosed, mpc, jobCnt, allResults, aggrHist,
                 totalCount1, totalCount2, out, exited, faults, received, arrived>>
  /\ UNCHANGED <<wvars, pvars, rvars, dvars, cvars, ovars, xvars, mvars>>

\* The body of the goroutine, Queryx or StructScan returning an error:
\* panicOnError, which nothing recovers.
Cmp_Panic(w) ==
  /\ Running
  /\ w.state = "run"
  /\ faults < MaxFaults
  /\ faults' = faults + 1
  /\ exited' = TRUE
  /\ UNCHANGED <<version, refsErr, groupRef, nrefs, nextJob, jobs, jobsClosed, pool,
                 results, resultsClosed, mpc, jobCnt, allResults, aggrHist,
                 totalCount1, totalCount2, out, received, arrived>>
  /\ UNCHANGED <<wvars, pvars, rvars, dvars, cvars, ovars, xvars, mvars>>

\* The body of the goroutine, rows1.Next() returning false on an error.
Cmp_ComputeTruncated(w) ==
  /\ Running
  /\ w.state = "run"
  /\ faults < MaxFaults
  /\ faults' = faults + 1
  /\ pool' = Moved(w, Worker("emit", w.job, CmpTruncatedResult(w.job)))
  /\ UNCHANGED <<version, refsErr, groupRef, nrefs, nextJob, jobs, jobsClosed,
                 results, resultsClosed, mpc, jobCnt, allResults, aggrHist,
                 totalCount1, totalCount2, out, exited, received, arrived>>
  /\ UNCHANGED <<wvars, pvars, rvars, dvars, cvars, ovars, xvars, mvars>>

\* hists <- hist of goroutine w, received by main (unbuffered), the body of
\* main's loop for it, and the return of the goroutine (wg.Done).
Cmp_Recv(w) ==
  /\ Running
  /\ version = Compare
  /\ mpc = "range"
  /\ w.state = "emit"
  /\ aggrHist' = MergeHist(aggrHist, w.res.hist)
  /\ arrived' = Append(arrived, w.job)
  /\ pool' = Moved(w, Worker("exit", 0, NoRes))
  /\ UNCHANGED <<version, refsErr, groupRef, nrefs, nextJob, jobs, jobsClosed,
                 results, resultsClosed, mpc, jobCnt, allResults, totalCount1,
                 totalCount2, out, exited, faults, received>>
  /\ UNCHANGED <<wvars, pvars, rvars, dvars, cvars, ovars, xvars, mvars>>

\* compare-read-relative-pos: wg.Wait() returns; close(hists).
Cmp_Close ==
  /\ Running
  /\ version = Compare
  /\ mpc = "range"
  /\ ~resultsClosed
  /\ \A w \in DOMAIN pool : w.state = "exit"
  /\ resultsClosed' = TRUE
  /\ UNCHANGED <<version, refsErr, groupRef, nrefs, nextJob, jobs, jobsClosed, pool,
                 results, mpc, jobCnt, allResults, aggrHist, totalCount1, totalCount2,
                 out, exited, faults, received, arrived>>
  /\ UNCHANGED <<wvars, pvars, rvars, dvars, cvars, ovars, xvars, mvars>>

\* The rows printed by: for i := -*span; i <= *span; i++ { "%d\t%d\n" }
CmpRows(h, span) ==
  [i \in 1..(2 * span + 1) |->
     [kind |-> "row", pos |-> i - span - 1, count |-> Get(h, i - span - 1)]]

\* compare-read-relative-pos, main: the range over hists ends; the table.
Cmp_Report ==
  /\ Running
  /\ version = Compare
  /\ mpc = "range"
  /\ resultsClosed
  /\ out' = <<[kind |-> "header"]>> \o CmpRows(aggrHist, opts.Span)
  /\ mpc' = "done"
  /\ UNCHANGED <<version, refsErr, groupRef, nrefs, nextJob, jobs, jobsClosed, pool,
                 results, resultsClosed, jobCnt, allResults, aggrHist, totalCount1,
                 totalCount2, exited, faults, received, arrived>>
  /\ UNCHANGED <<wvars, pvars, rvars, dvars, cvars, ovars, xvars, mvars>>

MainNext ==
  \/ Main_Parse
  \/ Main_ConnectFail
  \/ \E n \in 0..MaxMainRefs : Main_ReadRefs(n)
  \/ \E n \in 0..MaxMainRefs : Main_ReadRefsFail(n)
  \/ Main_Deploy
  \/ Cmp_Spawn
  \/ Cmp_Range
  \/ \E w \in DOMAIN pool : Cmp_Compute(w)
  \/ \E w \in DOMAIN pool : Cmp_Panic(w)
  \/ \E w \in DOMAIN pool : Cmp_ComputeTruncated(w)
  \/ \E w \in DOMAIN pool : Cmp_Recv(w)
  \/ Cmp_Close
  \/ Cmp_Report
  \/ SchedNext
SpecMain == MainInit /\ [][MainNext]_vars

\* C11: after a failure of the read of the catalog of references the process
\* has ended, with no goroutine started and nothing printed.
C11_CatalogFailureIsFatal ==
  refsErr => (exited /\ pool = EmptyBag /\ out = <<>>)

\* C12: with a negative --span the run does not get past the test of its
\* options: the catalog is not read, no goroutine is started, nothing is printed.
C12_NegativeSpanRejected ==
  opts.Span < 0 => (mpc \in {"parse", "refs"} /\ pool = EmptyBag /\ out = <<>>)

\* The number of goroutines that are computing a partition.
Computing ==
  LET B == {w \in DOMAIN pool : w.state \in {"busy", "run"}}
  IN BagCardinality([w \in B |-> pool[w]])

\* C19: at most MaxConc partitions are being computed at any time.
C19_BoundedConcurrency == Computing <= MaxConc

\* The offsets of the table, and their number.
Offsets == (-opts.Span)..opts.Span
NOffsets == Cardinality(Offsets)
\* The number of pairs printed on a row (column pairs, or count).
Printed(row) == IF version = Compare THEN row.count ELSE row.pairs
\* The pairs of the references 1..n at offset k.
RECURSIVE PairsUpTo(_, _)
PairsUpTo(n, k) ==
  IF n = 0 THEN 0 ELSE PairsUpTo(n - 1, k) + Get(OwnResults[n].hist, k)

\* C21: the table is a header followed by blocks of one row per offset of
\* [-span, span], the offsets of a block increasing by one from -span to span:
\* one block of 2 * span + 1 rows in aggregate mode, one such block per
\* reference in grouped mode; a row of the aggregate table prints the entry of
\* the aggregate histogram at its offset, 0 if the histogram has no such entry,
\* and an offset at which the enumerated references have no pair is printed
\* with 0.
C21_OneRowPerOffset ==
  out # <<>> =>
    /\ out[1].kind = "header"
    /\ \A i \in 2..Len(out) :
         /\ out[i].kind = "row"
         /\ out[i].pos \in Offsets
         /\ out[i].pos = ((i - 2) % NOffsets) - opts.Span
         /\ i > 2 /\ out[i].pos # -opts.Span => out[i].pos = out[i - 1].pos + 1
         /\ PairsUpTo(nrefs, out[i].pos) = 0 => Printed(out[i]) = 0
         /\ ~groupRef =>
              Printed(out[i]) =
                (IF out[i].pos \in DOMAIN aggrHist THEN aggrHist[out[i].pos] ELSE 0)
    /\ opts.Span >= 0 => NOffsets = 2 * opts.Span + 1
    /\ (Len(out) - 1) % (IF NOffsets = 0 THEN 1 ELSE NOffsets) = 0
    /\ (mpc = "done" /\ ~groupRef) => Len(out) = 1 + NOffsets
    /\ (mpc = "done" /\ groupRef) =>
         /\ Len(out) = 1 + nrefs * NOffsets
         /\ \A j \in 1..nrefs :
              Cardinality({i \in DOMAIN out : out[i].kind = "row"
                                              /\ out[i].ref = RefNames[j]}) = NOffsets
C21_Witness ==
  /\ mpc = "done"
  /\ ~groupRef
  /\ version = "0.6"
  /\ nrefs = 2
  /\ opts.Span = MaxSpan
  /\ Len(out) = 2 * MaxSpan + 2
  /\ out[2].pos = -MaxSpan
  /\ out[2].pairs > 0
  /\ out[Len(out)].pos = MaxSpan
  /\ out[Len(out)].pairs = 0
\* The same table when no reference is enumerated: the aggregate histogram has
\* no entry and every offset is printed with 0.
C21_EmptyWitness ==
  /\ mpc = "done"
  /\ ~groupRef
  /\ nrefs = 0
  /\ aggrHist = EmptyMap
  /\ Len(out) = 2 * MaxSpan + 2
  /\ \A i \in 2..Len(out) : Printed(out[i]) = 0

\* ------------------------------ the worker on tables of several references
\* The job of reference chr1 on two tables that hold reads of chr1 and of
\* chr2, on both strands: one-base reads, dataset 2 with one read at most.
RefRows ==
  {[rname |-> n, strand |-> s, StartPos |-> a, StopPos |-> a, CopyNumber |-> 1] :
     n \in {Chr1, "chr2"}, s \in Strands, a \in 0..MaxCoord}
StrandInit ==
  /\ opts \in {[SchedOpts EXCEPT !.Anti = a] : a \in BOOLEAN}
  /\ db1 \in SeqsUpTo(RefRows, MaxRows)
  /\ db2 \in SeqsUpTo(RefRows, 1)
  /\ pc = "start"
  /\ oriIdx = 1
  /\ wig = EmptyMap
  /\ visited = {}
  /\ hist = EmptyMap
  /\ count1 = 0
  /\ count2 = 0
  /\ rows = <<>>
  /\ res = NoResult
  /\ truncated = FALSE
  /\ SchedIdle
  /\ PosIdle
  /\ RefsIdle
  /\ ReaderIdle
  /\ NoTables
  /\ SamIdle
  /\ OverlapIdle
  /\ OwnIdle
SpecStrand == StrandInit /\ [][WorkerNext]_vars

\* The rows of table t on reference n and strand s, in table order.
OnStrand(t, n, s) == SelectSeq(t, LAMBDA r : r.rname = n /\ r.strand = s)
\* The pairs of a read of db1 and a read of db2 at offset k that are on chr1
\* both, on the same strand without Anti and on opposite strands with it.
StrandPairs(k) ==
  {ij \in (DOMAIN db1) \X (DOMAIN db2) :
     LET r1 == db1[ij[1]]
         r2 == db2[ij[2]]
     IN /\ r1.rname = Chr1
        /\ r2.rname = Chr1
        /\ IF opts.Anti THEN r1.strand = -1 * r2.strand ELSE r1.strand = r2.strand
        /\ (r1.StartPos - r2.StartPos) * r2.strand = k}

\* C22: the cursor on dataset 1 is opened on the reads of the job's reference
\* with strand ori without Anti and -ori with Anti, the cursor on dataset 2 on
\* the reads of the job's reference with strand ori; the histogram sent counts
\* at every offset the pairs of reads that are both on the job's reference, on
\* equal strands without Anti and on opposite strands with it, and no other.
C22_QueryOrientations ==
  /\ [][/\ Query1 => rows' = OnStrand(db1, Chr1, IF opts.Anti THEN -1 * ori ELSE ori)
        /\ Query2 => rows' = OnStrand(db2, Chr1, ori)]_vars
  /\ [](res.sent =>
         \A k \in SpanRange : Get(res.hist, k) = Cardinality(StrandPairs(k)))
C22_Witness ==
  /\ res.sent
  /\ opts.Anti
  /\ Len(db1) = 2
  /\ Len(db2) = 1
  /\ db2[1].rname = Chr1
  /\ db2[1].strand = Reverse
  /\ db1[1].rname = "chr2"
  /\ db1[1].strand = Forward
  /\ db1[2] = [db1[1] EXCEPT !.rname = Chr1]
  /\ db1[1].StartPos = db2[1].StartPos
  /\ res.hist[0] = 1

\* ------------------------------------------------- readRefs, step by step
\* The rows of the two tables: reads of three references that end at 0 or at
\* MaxCoord.
CatNames == {RefNames[1], RefNames[2], RefNames[3]}
CatRows ==
  {[rname |-> n, strand |-> Forward, StartPos |-> 0, StopPos |-> b, CopyNumber |-> 1] :
     n \in CatNames, b \in {0, MaxCoord}}
NamesOf(t) == {t[i].rname : i \in DOMAIN t}
\* SELECT rname, MAX(stop)+1 AS length ... GROUP BY rname: the row of one name.
ReferenceOf(t, n) ==
  [Chrom |-> n,
   Length |-> SetMax({t[i].StopPos : i \in {x \in DOMAIN t : t[x].rname = n}}) + 1]
Orderings(S) ==
  {q \in [1..Cardinality(S) -> S] : \A i, j \in DOMAIN q : i # j => q[i] # q[j]}
\* What SelectReferences can return on table t: one Reference per name, in an
\* order the query does not fix.
SelectReferences(t) ==
  {[i \in DOMAIN q |-> ReferenceOf(t, q[i])] : q \in Orderings(NamesOf(t))}
\* append(refs1, refs2...) giving refs1 alone.
AppendedFirstOnly(a, b) == a
\* append(refs1, refs2...)
Appended(a, b) == a \o b
\* The insertion that keeps the entry a name already has.
RefsmapPutIfAbsent(m, r) ==
  [n \in (DOMAIN m) \cup {r.Chrom} |-> IF n \in DOMAIN m THEN m[n] ELSE r]
\* refsmap[r.Chrom] = r
RefsmapPut(m, r) ==
  [n \in (DOMAIN m) \cup {r.Chrom} |-> IF n = r.Chrom THEN r ELSE m[n]]
\* The names of the references of a list.
Chroms(l) == {l[i].Chrom : i \in DOMAIN l}

RefsInit ==
  /\ db1 \in SeqsUpTo(CatRows, MaxRows)
  /\ db2 \in SeqsUpTo(CatRows, MaxRows)
  /\ Len(db1) + Len(db2) <= MaxTotal
  /\ refs1 = <<>>
  /\ refs2 = <<>>
  /\ rlist = <<>>
  /\ refsmap = <<>>
  /\ refs = <<>>
  /\ rpc = "select1"
  /\ opts = ScenarioOpts
  /\ pc = "idle"
  /\ oriIdx = 1
  /\ wig = EmptyMap
  /\ visited = {}
  /\ hist = EmptyMap
  /\ count1 = 0
  /\ count2 = 0
  /\ rows = <<>>
  /\ res = NoResult
  /\ truncated = FALSE
  /\ SchedIdle
  /\ PosIdle
  /\ ReaderIdle
  /\ NoTables
  /\ SamIdle
  /\ OverlapIdle
  /\ OwnIdle

\* refs1, err := htsdb.SelectReferences(db1, refsB1), err nil.
Refs_Select1 ==
  /\ rpc = "select1"
  /\ refs1' \in SelectReferences(db1)
  /\ rpc' = "select2"
  /\ UNCHANGED <<refs2, rlist, refsmap, refs>>
  /\ UNCHANGED <<wvars, svars, pvars, dvars, cvars, ovars, xvars, mvars>>

\* refs2, err := htsdb.SelectReferences(db2, refsB2), err nil; the operand of
\* the range is evaluated.
Refs_Select2 ==
  /\ rpc = "select2"
  /\ \E l \in SelectReferences(db2) :
       /\ refs2' = l
       /\ rlist' = Appended(refs1, l)
  /\ rpc' = "insert"
  /\ UNCHANGED <<refs1, refsmap, refs>>
  /\ UNCHANGED <<wvars, svars, pvars, dvars, cvars, ovars, xvars, mvars>>

\* SelectReferences returns an error: log.Fatal.
Refs_SelectFail ==
  /\ rpc \in {"select1", "select2"}
  /\ rpc' = "fatal"
  /\ UNCHANGED <<refs1, refs2, rlist, refsmap, refs>>
  /\ UNCHANGED <<wvars, svars, pvars, dvars, cvars, ovars, xvars, mvars>>

\* One pass of: for _, r := range append(refs1, refs2...) { refsmap[r.Chrom] = r }
Refs_Insert ==
  /\ rpc = "insert"
  /\ rlist # <<>>
  /\ refsmap' = RefsmapPut(refsmap, rlist[1])
  /\ rlist' = Tail(rlist)
  /\ UNCHANGED <<refs1, refs2, refs, rpc>>
  /\ UNCHANGED <<wvars, svars, pvars, dvars, cvars, ovars, xvars, mvars>>

\* The range over the list is over; the range over refsmap starts.
Refs_Inserted ==
  /\ rpc = "insert"
  /\ rlist = <<>>
  /\ rpc' = "collect"
  /\ UNCHANGED <<refs1, refs2, rlist, refsmap, refs>>
  /\ UNCHANGED <<wvars, svars, pvars, dvars, cvars, ovars, xvars, mvars>>

\* One pass of: for k := range refsmap { f := refsmap[k]; refs = append(refs, &f) }
\* on a key the range has not yet given, in the order the map gives them.
Refs_Collect(k) ==
  /\ rpc = "collect"
  /\ k \in DOMAIN refsmap
  /\ k \notin Chroms(refs)
  /\ refs' = Append(refs, refsmap[k])
  /\ UNCHANGED <<refs1, refs2, rlist, refsmap, rpc>>
  /\ UNCHANGED <<wvars, svars, pvars, dvars, cvars, ovars, xvars, mvars>>

\* The range has given every key: return refs, nil.
Refs_Return ==
  /\ rpc = "collect"
  /\ DOMAIN refsmap \subseteq Chroms(refs)
  /\ rpc' = "done"
  /\ UNCHANGED <<refs1, refs2, rlist, refsmap, refs>>
  /\ UNCHANGED <<wvars, svars, pvars, dvars, cvars, ovars, xvars, mvars>>

RefsNext ==
  \/ Refs_Select1
  \/ Refs_Select2
  \/ Refs_SelectFail
  \/ Refs_Insert
  \/ Refs_Inserted
  \/ \E k \in CatNames : Refs_Collect(k)
  \/ Refs_Return
SpecRefs == RefsInit /\ [][RefsNext]_vars

\* C23: the list readRefs returns holds the names of the references of the two
\* tables, all of them and no other, each name once: a name of one table only
\* is in it, and a name of both tables is in it once.
C23_UnionOnce ==
  /\ \A i, j \in DOMAIN refs : i # j => refs[i].Chrom # refs[j].Chrom
  /\ Chroms(refs) \subseteq NamesOf(db1) \cup NamesOf(db2)
  /\ rpc = "done" =>
       /\ Chroms(refs) = NamesOf(db1) \cup NamesOf(db2)
       /\ Len(refs) = Cardinality(NamesOf(db1) \cup NamesOf(db2))
C23_Witness ==
  /\ rpc = "done"
  /\ NamesOf(db1) = {"chr1", "chr2"}
  /\ NamesOf(db2) = {"chr2"}
  /\ Len(refs) = 2
  /\ refs[1].Chrom = "chr2"
  /\ refs[2].Chrom = "chr1"

\* --------------------------------------------------- Reader, call by call
ScanError == "missing destination name"
CursorError == "cursor error"
QueryError == "no such table"
\* A row of the result: whether StructScan can map it into dest.
Records == [start : 1..MaxRecords, scans : BOOLEAN]
ResultSets ==
  {q \in SeqsUpTo(Records, MaxRecords) : \A i \in DOMAIN q : q[i].start = i}

\* if r.err != nil, never true.
StoppedNever(e) == FALSE
\* if r.err != nil
Stopped(e) == e # Nil
\* StructScan that never fails.
StructScanLenient(row) == Nil
\* r.rows.StructScan(r.dest) on a row.
StructScan(row) == IF row.scans THEN Nil ELSE ScanError

ReaderInit ==
  /\ reader = "unborn"
  /\ newErr = Nil
  /\ qall \in ResultSets
  /\ qrows = qall
  /\ rowsClosed = FALSE
  /\ rowsErr = Nil
  /\ rerr = Nil
  /\ nexts = <<>>
  /\ opts = ScenarioOpts
  /\ db1 = <<>>
  /\ db2 = <<>>
  /\ pc = "idle"
  /\ oriIdx = 1
  /\ wig = EmptyMap
  /\ visited = {}
  /\ hist = EmptyMap
  /\ count1 = 0
  /\ count2 = 0
  /\ rows = <<>>
  /\ res = NoResult
  /\ truncated = FALSE
  /\ SchedIdle
  /\ PosIdle
  /\ RefsIdle
  /\ NoTables
  /\ SamIdle
  /\ OverlapIdle
  /\ OwnIdle

\* NewReader: Queryx succeeds; return &Reader{...}, nil.
NewReader ==
  /\ reader = "unborn"
  /\ reader' = "open"
  /\ UNCHANGED <<newErr, qall, qrows, rowsClosed, rowsErr, rerr, nexts>>
  /\ UNCHANGED <<wvars, svars, pvars, rvars, cvars, ovars, xvars, mvars>>

\* NewReader: Queryx returns an error; return nil, err.
NewReaderFail ==
  /\ reader = "unborn"
  /\ reader' = "nil"
  /\ newErr' = QueryError
  /\ UNCHANGED <<qall, qrows, rowsClosed, rowsErr, rerr, nexts>>
  /\ UNCHANGED <<wvars, svars, pvars, rvars, cvars, ovars, xvars, mvars>>

CanCallNext ==
  /\ reader = "open"
  /\ Len(nexts) < Len(qall) + MaxExtraCalls

\* Next with r.err set: return false.
NextStopped ==
  /\ CanCallNext
  /\ Stopped(rerr)
  /\ nexts' = Append(nexts, FALSE)
  /\ UNCHANGED <<reader, newErr, qall, qrows, rowsClosed, rowsErr, rerr>>
  /\ UNCHANGED <<wvars, svars, pvars, rvars, cvars, ovars, xvars, mvars>>

\* Next, r.rows.Next() false: the cursor is closed, or has given its last row
\* and closes; r.err = r.rows.Err(); return false.
NextExhausted ==
  /\ CanCallNext
  /\ ~Stopped(rerr)
  /\ rowsClosed \/ qrows = <<>>
  /\ rowsClosed' = TRUE
  /\ rerr' = rowsErr
  /\ nexts' = Append(nexts, FALSE)
  /\ UNCHANGED <<reader, newErr, qall, qrows, rowsErr>>
  /\ UNCHANGED <<wvars, svars, pvars, rvars, cvars, ovars, xvars, mvars>>

\* Next, r.rows.Next() false on an error of the cursor with rows left: the
\* cursor closes with that error; r.err = r.rows.Err(); return false.
NextCursorFail ==
  /\ CanCallNext
  /\ ~Stopped(rerr)
  /\ ~rowsClosed
  /\ qrows # <<>>
  /\ rowsClosed' = TRUE
  /\ rowsErr' = CursorError
  /\ rerr' = CursorError
  /\ nexts' = Append(nexts, FALSE)
  /\ UNCHANGED <<reader, newErr, qall, qrows>>
  /\ UNCHANGED <<wvars, svars, pvars, rvars, cvars, ovars, xvars, mvars>>

\* Next, r.rows.Next() true: r.err = r.rows.StructScan(r.dest);
\* return r.err == nil.
NextRow ==
  /\ CanCallNext
  /\ ~Stopped(rerr)
  /\ ~rowsClosed
  /\ qrows # <<>>
  /\ rerr' = StructScan(qrows[1])
  /\ qrows' = Tail(qrows)
  /\ nexts' = Append(nexts, rerr' = Nil)
  /\ UNCHANGED <<reader, newErr, qall, rowsClosed, rowsErr>>
  /\ UNCHANGED <<wvars, svars, pvars, rvars, cvars, ovars, xvars, mvars>>

\* What Error() returns.
ReaderError == rerr

ReaderNext ==
  \/ NewReader
  \/ NewReaderFail
  \/ NextStopped
  \/ NextExhausted
  \/ NextCursorFail
  \/ NextRow
SpecReader == ReaderInit /\ [][ReaderNext]_vars

\* The number of calls of Next that returned true: the records delivered.
Delivered == Cardinality({i \in DOMAIN nexts : nexts[i]})
\* The number of rows the cursor has given.
Consumed == Len(qall) - Len(qrows)
NoFailure == rowsErr = Nil /\ \A i \in DOMAIN qall : qall[i].scans
ReturnedFalse == \E i \in DOMAIN nexts : ~nexts[i]

\* C25: a call of Next that follows a call that returned false returns false;
\* when no row fails to scan and the cursor has no error, Next returns true on
\* its first n calls for a result of n rows and false on every call after them
\* (once for 1 row, three times for 3 rows).
C25_StopsUnrecoverably ==
  /\ \A i, j \in DOMAIN nexts : (i < j /\ ~nexts[i]) => ~nexts[j]
  /\ NoFailure =>
       /\ \A i \in DOMAIN nexts : nexts[i] = (i <= Len(qall))
       /\ ReturnedFalse => Delivered = Len(qall)
C25_Witness ==
  /\ Len(qall) = 3
  /\ NoFailure
  /\ nexts = <<TRUE, TRUE, TRUE, FALSE, FALSE>>

\* C26: a failing query makes NewReader return an error and no reader, on which
\* Next is never called; the call of Next on a row that cannot be mapped into
\* dest returns false, after one true per row before it (none if the row is
\* the first), and Error returns the error of the mapping from then on; after
\* a failure of the cursor Error returns its error; after an exhaustion with
\* no failure Error returns nil.
C26_ErrorOutcomes ==
  /\ reader = "nil" => (newErr # Nil /\ nexts = <<>>)
  /\ reader = "open" => newErr = Nil
  /\ \A i \in 1..Delivered : qall[i].scans
  /\ (Consumed > 0 /\ ~qall[Consumed].scans) =>
       /\ ReaderError = ScanError
       /\ Delivered = Consumed - 1
       /\ ~nexts[Consumed]
  /\ rowsErr # Nil => (ReaderError = rowsErr /\ ReturnedFalse)
  /\ (NoFailure /\ ReturnedFalse) => ReaderError = Nil
  /\ ReaderError # Nil => ReturnedFalse
C26_Witness ==
  /\ Len(qall) = 1
  /\ ~qall[1].scans
  /\ nexts = <<FALSE, FALSE>>
  /\ Delivered = 0
  /\ ReaderError = ScanError

\* ------------------------------------------ the order of the two scans of a pass
\* The weight the index of the current pass has at pos once every row of the
\* cursor on db1 went through the body of the loop.
FinalIndexAt(pos) ==
  IF opts.Collapse1
  THEN (IF pos \in PosSet(Scanned1, opts.Pos1) THEN 1 ELSE 0)
  ELSE CountAt(Scanned1, opts.Pos1, pos)
IndexComplete ==
  /\ DOMAIN wig = PosSet(Scanned1, opts.Pos1)
  /\ \A pos \in DOMAIN wig : wig[pos] = FinalIndexAt(pos)
\* What one row of db2 at pos adds to the histogram at key k.
IncrementAt(pos, k) ==
  IF k \in SpanRange /\ pos + k * ori >= 0 THEN FinalIndexAt(pos + k * ori) ELSE 0

\* C29: within a job and an orientation the index is written only while the
\* cursor on db1 is read, it is complete from the query on db2 on, and no row of
\* db2 changes it; the histogram changes only while the cursor on db2 is read,
\* and a row of db2 at pos adds to every key k the final weight of the index at
\* the probed position pos + k * ori.
C29_Scan1BeforeScan2 ==
  /\ [](pc = "rows2" => IndexComplete)
  /\ [][wig' # wig => pc' = "rows1"]_vars
  /\ [][pc = "rows2" => wig' = wig]_vars
  /\ [][hist' # hist => (pc = "rows2" /\ rows # <<>> /\ count2' = count2 + 1)]_vars
  /\ [][(pc = "rows2" /\ count2' = count2 + 1) =>
          LET pos == GetPos(opts.Pos2, rows[1], ori)
          IN \A k \in DOMAIN hist' \cup SpanRange :
               Get(hist', k) = Get(hist, k) + IncrementAt(pos, k)]_vars
C29_Witness ==
  /\ pc = "rows2"
  /\ count2 > 0
  /\ Len(Scanned1) >= 2
  /\ \E k \in DOMAIN hist : hist[k] >= 2

\* ------------------------------------------------- the keys of the histograms
\* C30: every key of the histogram of a job, while it is built and when it is
\* sent, lies in [-span, span], in both passes of the loop on orientations and
\* with or without anti-sense; merging such a histogram into the aggregate, empty
\* or not, gives an aggregate whose keys lie in [-span, span].
C30_KeysWithinSpan ==
  /\ DOMAIN hist \subseteq SpanRange
  /\ res.sent => DOMAIN res.hist \subseteq SpanRange
  /\ DOMAIN MergeHist(EmptyMap, hist) \subseteq SpanRange
  /\ DOMAIN MergeHist(hist, hist) \subseteq SpanRange
  /\ DOMAIN aggrHist \subseteq SpanRange
C30_Witness ==
  /\ res.sent
  /\ opts.Anti
  /\ opts.Span = MaxSpan
  /\ DOMAIN res.hist = SpanRange
  /\ \E k \in DOMAIN res.hist : k # 0 /\ res.hist[k] > 0
  /\ DOMAIN MergeHist(res.hist, res.hist) = SpanRange

\* ---------------------------------------------- the maps of the workers
\* A Go map is a reference: result{hist: hist, ...} sends the address of the map
\* the worker wrote, count1 and count2 are copied. The workers have identities
\* here, to tell whose map an address is.
OwnWorkers == 1..MaxConc
OwnLocals(st, j, h, g, c1, c2, i) ==
  [state |-> st, job |-> j, hist |-> h, wig |-> g, count1 |-> c1, count2 |-> c2,
   oriIdx |-> i]
\* The worker before its first job: no local exists.
OwnStart == OwnLocals("idle", 0, 0, 0, 0, 0, 1)

OwnInit ==
  /\ heap = <<>>
  /\ own = [w \in OwnWorkers |-> OwnStart]
  /\ ojob = 1
  /\ osent = <<>>
  /\ osnap = <<>>
  /\ WorkerIdle
  /\ SchedIdle
  /\ PosIdle
  /\ RefsIdle
  /\ ReaderIdle
  /\ NoTables
  /\ SamIdle
  /\ OverlapIdle

\* make(map[int]uint) outside the loop on jobs: one map per worker.
MakeHistOnce(w) ==
  IF own[w].hist # 0
  THEN [addr |-> own[w].hist, heap |-> heap]
  ELSE [addr |-> Len(heap) + 1, heap |-> Append(heap, EmptyMap)]

\* hist := make(map[int]uint), in the body of the loop on jobs.
MakeHist(w) == [addr |-> Len(heap) + 1, heap |-> Append(heap, EmptyMap)]

\* for j := range jobs delivers a job; hist := make(...); var count1, count2 int
Own_Take(w) ==
  /\ own[w].state = "idle"
  /\ ojob <= OwnJobs
  /\ LET m == MakeHist(w)
     IN /\ heap' = m.heap
        /\ own' = [own EXCEPT ![w] = OwnLocals("scan1", ojob, m.addr, 0, 0, 0, 1)]
  /\ ojob' = ojob + 1
  /\ UNCHANGED <<osent, osnap>>
  /\ UNCHANGED <<wvars, svars, pvars, rvars, dvars, cvars, xvars, mvars>>

\* wig := make(map[int]uint) and the loop on reads in db1 of one orientation.
Own_Scan1(w) ==
  /\ own[w].state = "scan1"
  /\ LET l == own[w]
         o == Orientations[l.oriIdx]
         o1 == Ori1(SchedOpts, o)
         st == Scan1(SchedOpts, [wig |-> EmptyMap, count1 |-> l.count1],
                     Query(SchedDB1, o1, RefNames[l.job]), o1)
     IN /\ heap' = Append(heap, st.wig)
        /\ own' = [own EXCEPT ![w] = OwnLocals("scan2", l.job, l.hist, Len(heap) + 1,
                                               st.count1, l.count2, l.oriIdx)]
  /\ UNCHANGED <<ojob, osent, osnap>>
  /\ UNCHANGED <<wvars, svars, pvars, rvars, dvars, cvars, xvars, mvars>>

\* The loop on reads in db2 of one orientation: hist[...] += wig[...].
Own_Scan2(w) ==
  /\ own[w].state = "scan2"
  /\ LET l == own[w]
         o == Orientations[l.oriIdx]
         st == Scan2(SchedOpts, [visited |-> {}, hist |-> heap[l.hist],
                                 count2 |-> l.count2],
                     heap[l.wig], Query(SchedDB2, o, RefNames[l.job]), o)
         last == l.oriIdx = Len(Orientations)
     IN /\ heap' = [heap EXCEPT ![l.hist] = st.hist]
        /\ own' = [own EXCEPT ![w] =
                     OwnLocals(IF last THEN "send" ELSE "scan1", l.job, l.hist, l.wig,
                               l.count1, st.count2,
                               IF last THEN l.oriIdx ELSE l.oriIdx + 1)]
  /\ UNCHANGED <<ojob, osent, osnap>>
  /\ UNCHANGED <<wvars, svars, pvars, rvars, dvars, cvars, xvars, mvars>>

\* results <- result{hist: hist, job: j, count1: count1, count2: count2}, received
\* by main; the body of the loop on jobs ends.
Own_Send(w) ==
  /\ own[w].state = "send"
  /\ osent' = Append(osent, [by |-> w, job |-> own[w].job, hist |-> own[w].hist,
                             count1 |-> own[w].count1, count2 |-> own[w].count2])
  /\ osnap' = Append(osnap, heap[own[w].hist])
  /\ own' = [own EXCEPT ![w].state = "idle"]
  /\ UNCHANGED <<heap, ojob>>
  /\ UNCHANGED <<wvars, svars, pvars, rvars, dvars, cvars, xvars, mvars>>

\* jobs is closed and empty: the range ends and the worker returns.
Own_Return(w) ==
  /\ own[w].state = "idle"
  /\ ojob > OwnJobs
  /\ own' = [own EXCEPT ![w].state = "exit"]
  /\ UNCHANGED <<heap, ojob, osent, osnap>>
  /\ UNCHANGED <<wvars, svars, pvars, rvars, dvars, cvars, xvars, mvars>>

OwnNext ==
  \/ \E w \in OwnWorkers : Own_Take(w)
  \/ \E w \in OwnWorkers : Own_Scan1(w)
  \/ \E w \in OwnWorkers : Own_Scan2(w)
  \/ \E w \in OwnWorkers : Own_Send(w)
  \/ \E w \in OwnWorkers : Own_Return(w)
SpecOwn == OwnInit /\ [][OwnNext]_vars

\* The maps worker w can reach through its locals while it computes a job.
OwnMaps(w) ==
  IF own[w].state \in {"scan1", "scan2", "send"}
  THEN {own[w].hist, own[w].wig} \ {0}
  ELSE {}
SentMaps == {osent[i].hist : i \in DOMAIN osent}

\* C31: while they compute, two workers reach no common map, and a worker reaches
\* no map that was sent; a step changes only maps of the worker that takes it; a
\* job starts with an empty histogram and zero counters; a result that was sent
\* keeps the histogram and the counts it was sent with whatever its worker does
\* next, and they are those of its job alone.
C31_WorkerOwnsItsMaps ==
  /\ [](\A v, w \in OwnWorkers : v # w => OwnMaps(v) \cap OwnMaps(w) = {})
  /\ [](\A w \in OwnWorkers : OwnMaps(w) \cap SentMaps = {})
  /\ [][\A a \in DOMAIN heap : heap'[a] # heap[a] =>
          \E w \in OwnWorkers : own'[w] # own[w] /\ a \in OwnMaps(w)]_vars
  /\ [][\A w \in OwnWorkers : (own[w].state = "idle" /\ own'[w].state = "scan1") =>
          /\ heap'[own'[w].hist] = EmptyMap
          /\ own'[w].count1 = 0
          /\ own'[w].count2 = 0]_vars
  /\ [][\A i \in DOMAIN osent : osent'[i] = osent[i]]_vars
  /\ [](\A i \in DOMAIN osent :
          LET r == RunJob(SchedOpts, SchedDB1, SchedDB2, RefNames[osent[i].job])
          IN /\ heap[osent[i].hist] = osnap[i]
             /\ osnap[i] = r.hist
             /\ osent[i].count1 = r.count1
             /\ osent[i].count2 = r.count2)
C31_Witness ==
  /\ Len(osent) = OwnJobs
  /\ \E i, j \in DOMAIN osent :
       /\ i < j
       /\ osent[i].by = osent[j].by
       /\ heap[osent[i].hist] # EmptyMap
       /\ heap[osent[j].hist] # heap[osent[i].hist]

\* ------------------------------------- the totals of the aggregate report
\* From the two tables to the aggregate table of v0.6: readRefs, one job per
\* reference it returned, the merge of the results in the order they arrive,
\* the report. The rows of a table: two names, the three values of strand.
NotOriented == 0
TotRows ==
  {[rname |-> n, strand |-> s, StartPos |-> 0, StopPos |-> 0, CopyNumber |-> 1] :
     n \in {RefNames[1], RefNames[2]}, s \in {Reverse, NotOriented, Forward}}
TotOpts ==
  {[SchedOpts EXCEPT !.Anti = a, !.Collapse1 = c1, !.Collapse2 = c2] :
     a \in BOOLEAN, c1 \in BOOLEAN, c2 \in BOOLEAN}

TotInit ==
  /\ opts \in TotOpts
  /\ db1 \in SeqsUpTo(TotRows, MaxRows)
  /\ db2 \in SeqsUpTo(TotRows, MaxRows)
  /\ Len(db1) + Len(db2) <= MaxTotal
  /\ refs1 = <<>>
  /\ refs2 = <<>>
  /\ rlist = <<>>
  /\ refsmap = <<>>
  /\ refs = <<>>
  /\ rpc = "select1"
  /\ pc = "idle"
  /\ oriIdx = 1
  /\ wig = EmptyMap
  /\ visited = {}
  /\ hist = EmptyMap
  /\ count1 = 0
  /\ count2 = 0
  /\ rows = <<>>
  /\ res = NoResult
  /\ truncated = FALSE
  /\ SchedIdle
  /\ PosIdle
  /\ ReaderIdle
  /\ NoTables
  /\ SamIdle
  /\ OverlapIdle
  /\ OwnIdle

\* The result of the job of refs[i] arrives in main's range over results:
\* aggrHist[k] += v; totalCount1 += res.count1; totalCount2 += res.count2
Tot_Result(i) ==
  /\ rpc = "done"
  /\ mpc = "start"
  /\ i \in DOMAIN refs
  /\ \A a \in DOMAIN arrived : arrived[a] # i
  /\ LET r == RunJob(opts, db1, db2, refs[i].Chrom)
     IN /\ aggrHist' = MergeHist(aggrHist, r.hist)
        /\ totalCount1' = totalCount1 + r.count1
        /\ totalCount2' = totalCount2 + r.count2
  /\ arrived' = Append(arrived, i)
  /\ UNCHANGED <<version, refsErr, groupRef, nrefs, nextJob, jobs, jobsClosed, pool,
                 results, resultsClosed, mpc, jobCnt, allResults, out, exited, faults,
                 received>>
  /\ UNCHANGED <<wvars, pvars, rvars, dvars, cvars, ovars, xvars, mvars>>

\* results is closed after the last result: the aggregate table is printed.
Tot_Report ==
  /\ rpc = "done"
  /\ mpc = "start"
  /\ Len(arrived) = Len(refs)
  /\ out' = Append(out, HeaderRow)
            \o HistRows("", aggrHist, totalCount1, totalCount2, opts.Span)
  /\ mpc' = "done"
  /\ UNCHANGED <<version, refsErr, groupRef, nrefs, nextJob, jobs, jobsClosed, pool,
                 results, resultsClosed, jobCnt, allResults, aggrHist, totalCount1,
                 totalCount2, exited, faults, received, arrived>>
  /\ UNCHANGED <<wvars, pvars, rvars, dvars, cvars, ovars, xvars, mvars>>

TotNext ==
  \/ RefsNext
  \/ \E i \in 1..Cardinality(CatNames) : Tot_Result(i)
  \/ Tot_Report
SpecTotals == TotInit /\ [][TotNext]_vars

\* The records of table t that have an orientation.
Oriented(t) == {i \in DOMAIN t : t[i].strand \in {Forward, Reverse}}

\* C32: with collapsing off, every row of the aggregate table carries as
\* readCount1 the number of records of dataset 1 that are forward or reverse,
\* all of them being on an enumerated reference, and as readCount2 that number
\* for dataset 2: with --anti or without, with references of one dataset only,
\* in any order of enumeration and of arrival; a record that has no orientation
\* is not counted.
C32_TotalsCountEveryRecord ==
  (mpc = "done" /\ ~opts.Collapse1 /\ ~opts.Collapse2) =>
    /\ \A i \in Oriented(db1) : db1[i].rname \in Chroms(refs)
    /\ \A i \in Oriented(db2) : db2[i].rname \in Chroms(refs)
    /\ totalCount1 = Cardinality(Oriented(db1))
    /\ totalCount2 = Cardinality(Oriented(db2))
    /\ Len(out) = 2 * opts.Span + 2
    /\ \A i \in DOMAIN out : out[i].kind = "row" =>
         /\ out[i].readCount1 = Cardinality(Oriented(db1))
         /\ out[i].readCount2 = Cardinality(Oriented(db2))
C32_Witness ==
  /\ mpc = "done"
  /\ ~opts.Collapse1
  /\ ~opts.Collapse2
  /\ opts.Anti
  /\ NamesOf(db1) \cap NamesOf(db2) = {}
  /\ Len(db1) = 2
  /\ \E i \in DOMAIN db1 : db1[i].strand = Reverse
  /\ \E i \in DOMAIN db1 : db1[i].strand = NotOriented
  /\ \E i \in DOMAIN db2 : db2[i].strand = Forward
  /\ totalCount1 = 1
  /\ totalCount2 = 1

\* ------------------------------------------- the scope of the collapsing
\* The scans of table t that deliver a record, with the reference point of the
\* record: one per reference, strand and position.
ScanPoints(t, p) ==
  {<<t[i].rname, t[i].strand, PosOf(p, t[i])>> : i \in Oriented(t)}
\* The pairs of scan points the two datasets give at offset k: same reference,
\* the strand of dataset 1 being the one queried for the strand of dataset 2.
PointPairs(k) ==
  {pq \in ScanPoints(db1, opts.Pos1) \X ScanPoints(db2, opts.Pos2) :
     /\ pq[1][1] = pq[2][1]
     /\ pq[1][2] = Ori1(opts, pq[2][2])
     /\ (pq[1][3] - pq[2][3]) * pq[2][2] = k}

\* C33: with collapse1 on readCount1 is the number of distinct (reference,
\* strand, position) of the oriented records of dataset 1, so records at one
\* coordinate on opposite strands or on different references all count and a
\* repeat within one scan does not; the same for collapse2 and readCount2; with
\* both on, the histogram is the number of pairs of such points at each offset,
\* the two passes of a reference adding up.
C33_CollapsePerScan ==
  mpc = "done" =>
    /\ opts.Collapse1 => totalCount1 = Cardinality(ScanPoints(db1, opts.Pos1))
    /\ opts.Collapse2 => totalCount2 = Cardinality(ScanPoints(db2, opts.Pos2))
    /\ (opts.Collapse1 /\ opts.Collapse2) =>
         \A k \in SpanRange : Get(aggrHist, k) = Cardinality(PointPairs(k))
C33_Witness ==
  /\ mpc = "done"
  /\ opts.Collapse1
  /\ opts.Collapse2
  /\ Len(db1) = 2
  /\ db1[1].rname = db1[2].rname
  /\ db1[1].strand = Forward
  /\ db1[2].strand = Reverse
  /\ totalCount1 = 2

\* ------------------------------------- a name both catalogs hold
\* The entry of name n in the list readRefs returned.
Returned(n) == CHOOSE r \in {refs[i] : i \in DOMAIN refs} : r.Chrom = n

\* C34: in the list readRefs returns, a name of both tables has the length
\* dataset 2 gives it, whatever the length dataset 1 gives it, the order in which
\* either catalog lists its names and the order in which the map is ranged over;
\* a name of dataset 1 only has the length dataset 1 gives it.
C34_Dataset2EntryKept ==
  rpc = "done" =>
    \A n \in Chroms(refs) :
      Returned(n) = IF n \in NamesOf(db2) THEN ReferenceOf(db2, n)
                    ELSE ReferenceOf(db1, n)
C34_Witness ==
  /\ rpc = "done"
  /\ Len(refs) = 2
  /\ \E n \in NamesOf(db1) \cap NamesOf(db2) :
       /\ ReferenceOf(db1, n).Length > ReferenceOf(db2, n).Length
       /\ Returned(n).Length = ReferenceOf(db2, n).Length
       /\ refs[2].Chrom = n

\* ------------------------------------------- the position-overlap tools
\* htsdb-pos-overlap v0.2 and compare-read-positions v0.1: main starts one
\* goroutine per reference of db1 and strand; each reads db2, then db1, and sends
\* its count on the unbuffered channel counts, which main ranges over.
OverlapTools == {"htsdb-pos-overlap", "compare-read-positions"}
OvRows(starts, copies) ==
  {[rname |-> n, strand |-> s, StartPos |-> a, StopPos |-> MaxCoord, CopyNumber |-> c] :
     n \in {RefNames[1], RefNames[2]}, s \in Strands, a \in starts, c \in copies}
\* The reads of db1 start at 0 and have any copy number; those of db2 start
\* anywhere, and their copy_number is read into r and never used.
OvRows1 == OvRows({0}, 1..MaxCopy)
OvRows2 == OvRows(0..MaxCoord, {1})
\* pos := getPos(r, ori): htsdb.Head/Tail by --pos 5p/3p in htsdb-pos-overlap,
\* the local head/tail by --pos head/tail in compare-read-positions.
OvGetPos(r, s) ==
  IF tool = "compare-read-positions"
  THEN (IF opts.Pos1 = "3p" THEN LocalTailCall(r, s) ELSE LocalHeadCall(r, s)).value
  ELSE GetPos(opts.Pos1, r, s)
Goroutine(st, rs, occ, c) == [state |-> st, rows |-> rs, occupied |-> occ, cnt |-> c]

OverlapInit ==
  /\ tool \in OverlapTools
  /\ opts \in {[ScenarioOpts EXCEPT !.Pos1 = p] : p \in Positions}
  /\ db1 \in SeqsUpTo(OvRows1, MaxRows)
  /\ db2 \in SeqsUpTo(OvRows2, MaxRows)
  /\ Len(db1) + Len(db2) <= MaxTotal
  /\ parts = [k \in NamesOf(db1) \X Strands |-> Goroutine("start", <<>>, {}, ZeroCount)]
  /\ aggrCount = ZeroCount
  /\ xpc = "range"
  /\ xout = <<>>
  /\ pc = "idle"
  /\ oriIdx = 1
  /\ wig = EmptyMap
  /\ visited = {}
  /\ hist = EmptyMap
  /\ count1 = 0
  /\ count2 = 0
  /\ rows = <<>>
  /\ res = NoResult
  /\ truncated = FALSE
  /\ SchedIdle
  /\ PosIdle
  /\ RefsIdle
  /\ ReaderIdle
  /\ NoTables
  /\ SamIdle
  /\ OwnIdle

\* The body of the loop on rows1 with posTotal and readsTotal counted for the
\* occupied positions only.
CountReadOccupiedOnly(c, occ, r, pos) ==
  IF pos \in occ
  THEN [posTotal |-> c.posTotal + 1, posOccupied |-> c.posOccupied + 1,
        readsTotal |-> c.readsTotal + r.CopyNumber,
        readsOccupied |-> c.readsOccupied + r.CopyNumber]
  ELSE c
\* if occupied[pos] { cnt.posOccupied++; cnt.readsOccupied += r.CopyNumber }
\* cnt.posTotal++; cnt.readsTotal += r.CopyNumber
CountRead(c, occ, r, pos) ==
  [posTotal |-> c.posTotal + 1,
   posOccupied |-> c.posOccupied + (IF pos \in occ THEN 1 ELSE 0),
   readsTotal |-> c.readsTotal + r.CopyNumber,
   readsOccupied |-> c.readsOccupied + (IF pos \in occ THEN r.CopyNumber ELSE 0)]
\* func (c *count) incrementBy(inc *count)
IncrementBy(c, inc) ==
  [posTotal |-> c.posTotal + inc.posTotal,
   posOccupied |-> c.posOccupied + inc.posOccupied,
   readsTotal |-> c.readsTotal + inc.readsTotal,
   readsOccupied |-> c.readsOccupied + inc.readsOccupied]

\* occupied := make(map[int]bool); rows2 := readsStmt2.Queryx(ori, ref.Chrom)
Ov_Query2(k) ==
  /\ parts[k].state = "start"
  /\ parts' = [parts EXCEPT ![k] = Goroutine("rows2", Query(db2, k[2], k[1]), {}, ZeroCount)]
  /\ UNCHANGED <<tool, aggrCount, xpc, xout>>
  /\ UNCHANGED <<wvars, svars, pvars, rvars, dvars, cvars, ovars, mvars>>

\* rows2.Next() delivers a row: occupied[pos] = true
Ov_Rows2Next(k) ==
  /\ parts[k].state = "rows2"
  /\ parts[k].rows # <<>>
  /\ LET g == parts[k]
         pos == OvGetPos(g.rows[1], k[2])
     IN parts' = [parts EXCEPT ![k] =
                    Goroutine("rows2", Tail(g.rows), g.occupied \cup {pos}, g.cnt)]
  /\ UNCHANGED <<tool, aggrCount, xpc, xout>>
  /\ UNCHANGED <<wvars, svars, pvars, rvars, dvars, cvars, ovars, mvars>>

\* rows2.Next() is false; rows1 := readsStmt1.Queryx(ori, ref.Chrom)
Ov_Query1(k) ==
  /\ parts[k].state = "rows2"
  /\ parts[k].rows = <<>>
  /\ parts' = [parts EXCEPT ![k] =
                 Goroutine("rows1", Query(db1, k[2], k[1]), parts[k].occupied, ZeroCount)]
  /\ UNCHANGED <<tool, aggrCount, xpc, xout>>
  /\ UNCHANGED <<wvars, svars, pvars, rvars, dvars, cvars, ovars, mvars>>

\* rows1.Next() delivers a row: the body of the loop.
Ov_Rows1Next(k) ==
  /\ parts[k].state = "rows1"
  /\ parts[k].rows # <<>>
  /\ LET g == parts[k]
         pos == OvGetPos(g.rows[1], k[2])
     IN parts' = [parts EXCEPT ![k] =
                    Goroutine("rows1", Tail(g.rows), g.occupied,
                              CountRead(g.cnt, g.occupied, g.rows[1], pos))]
  /\ UNCHANGED <<tool, aggrCount, xpc, xout>>
  /\ UNCHANGED <<wvars, svars, pvars, rvars, dvars, cvars, ovars, mvars>>

\* rows1.Next() is false; counts <- cnt, received by main: aggr.incrementBy(v)
Ov_Send(k) ==
  /\ parts[k].state = "rows1"
  /\ parts[k].rows = <<>>
  /\ xpc = "range"
  /\ aggrCount' = IncrementBy(aggrCount, parts[k].cnt)
  /\ parts' = [parts EXCEPT ![k].state = "done"]
  /\ UNCHANGED <<tool, xpc, xout>>
  /\ UNCHANGED <<wvars, svars, pvars, rvars, dvars, cvars, ovars, mvars>>

\* wg.Wait() returns, counts is closed, main's range ends: fmt.Printf of the
\* four counts (the two percentages are computed from them).
Ov_Report ==
  /\ xpc = "range"
  /\ \A k \in DOMAIN parts : parts[k].state = "done"
  /\ xout' = <<aggrCount>>
  /\ xpc' = "done"
  /\ UNCHANGED <<tool, parts, aggrCount>>
  /\ UNCHANGED <<wvars, svars, pvars, rvars, dvars, cvars, ovars, mvars>>

OverlapNext ==
  \/ \E k \in DOMAIN parts : Ov_Query2(k)
  \/ \E k \in DOMAIN parts : Ov_Rows2Next(k)
  \/ \E k \in DOMAIN parts : Ov_Query1(k)
  \/ \E k \in DOMAIN parts : Ov_Rows1Next(k)
  \/ \E k \in DOMAIN parts : Ov_Send(k)
  \/ Ov_Report
SpecOverlap == OverlapInit /\ [][OverlapNext]_vars

\* The reference point of a read of either table on its own strand: its start
\* when --pos is 5p (head) and the strand forward, or 3p (tail) and reverse; its
\* stored stop otherwise.
OvPoint(r) ==
  IF (opts.Pos1 = "5p") = (r.strand = Forward) THEN r.StartPos ELSE r.StopPos
\* The reads of table t on reference and strand k = <<name, strand>>.
OnPart(t, k) == {i \in DOMAIN t : t[i].rname = k[1] /\ t[i].strand = k[2]}
\* Those of db1 whose reference point is that of a read of db2 of the same
\* reference and strand.
OccupiedReads(k) ==
  {i \in OnPart(db1, k) : \E j \in OnPart(db2, k) : OvPoint(db2[j]) = OvPoint(db1[i])}
RECURSIVE Copies(_, _)
Copies(t, S) ==
  IF S = {} THEN 0
  ELSE LET i == CHOOSE x \in S : TRUE IN t[i].CopyNumber + Copies(t, S \ {i})
\* The count of partition k when its scan of db1 is over.
FinalCount(k) ==
  [posTotal |-> Cardinality(OnPart(db1, k)),
   posOccupied |-> Cardinality(OccupiedReads(k)),
   readsTotal |-> Copies(db1, OnPart(db1, k)),
   readsOccupied |-> Copies(db1, OccupiedReads(k))]
Received == {k \in DOMAIN parts : parts[k].state = "done"}
RECURSIVE SumCounts(_)
SumCounts(S) ==
  IF S = {} THEN ZeroCount
  ELSE LET k == CHOOSE x \in S : TRUE IN IncrementBy(SumCounts(S \ {k}), FinalCount(k))
Bounded(c) == c.posOccupied <= c.posTotal /\ c.readsOccupied <= c.readsTotal

\* C35: in the count of every goroutine and in the aggregate, occupied is at
\* most total for positions and for reads; posTotal is the number of rows of
\* db1 the goroutine has read; when its scan is over, the reads it counted as
\* occupied are those of db1 whose reference point is that of a read of db2 of
\* the same reference and strand; from the query on db1 on, the occupied set
\* holds the points of all those reads of db2 and does not change; the aggregate
\* is the sum of the counts received, in whatever order they arrive.
C35_OccupiedCounts ==
  /\ [](\A k \in DOMAIN parts :
          LET g == parts[k]
          IN /\ Bounded(g.cnt)
             /\ g.state = "rows1" =>
                  g.cnt.posTotal = Cardinality(OnPart(db1, k)) - Len(g.rows)
             /\ (g.state = "done" \/ (g.state = "rows1" /\ g.rows = <<>>)) =>
                  g.cnt = FinalCount(k)
             /\ g.state \in {"rows1", "done"} =>
                  g.occupied = {OvPoint(db2[j]) : j \in OnPart(db2, k)})
  /\ [][\A k \in DOMAIN parts :
          parts[k].state = "rows1" => parts'[k].occupied = parts[k].occupied]_vars
  /\ [](Bounded(aggrCount) /\ aggrCount = SumCounts(Received))
  /\ [](xpc = "done" =>
          /\ xout = <<aggrCount>>
          /\ aggrCount.posTotal = Cardinality(DOMAIN db1)
          /\ aggrCount.readsTotal = Copies(db1, DOMAIN db1))
C35_Witness ==
  /\ xpc = "done"
  /\ tool = "compare-read-positions"
  /\ Cardinality(DOMAIN parts) = 4
  /\ aggrCount.posTotal = 2
  /\ aggrCount.posOccupied = 1
  /\ aggrCount.readsTotal = 3
  /\ aggrCount.readsOccupied = 2

\* --------------------------------------- the Reader of htsdb-to-sam, call by call
\* A string is the sequence of its bytes, one character each.
Digits == <<"0", "1", "2", "3", "4", "5", "6", "7", "8", "9">>
RECURSIVE FormatNat(_)
FormatNat(n) ==
  IF n < 10 THEN <<Digits[n + 1]>>
  ELSE FormatNat(n \div 10) \o <<Digits[(n % 10) + 1]>>
\* strconv.Itoa
Itoa(n) == IF n < 0 THEN <<"-">> \o FormatNat(-n) ELSE FormatNat(n)
Tab == <<"\t">>
Newline == <<"\n">>
\* s := r.dest.Qname + "\t" + strconv.Itoa(r.dest.Flag) + ... + r.dest.Tags + "\n"
FormatLine(d) ==
  d.Qname \o Tab \o Itoa(d.Flag) \o Tab \o d.Rname \o Tab \o Itoa(d.Pos) \o Tab
  \o Itoa(d.Mapq) \o Tab \o d.Cigar \o Tab \o d.Rnext \o Tab \o Itoa(d.Pnext) \o Tab
  \o Itoa(d.Tlen) \o Tab \o d.Seq \o Tab \o d.Qual \o Tab \o d.Tags \o Newline
\* The records a table can hold: an unmapped read with empty tags, and a mapped
\* pair member with a negative template length.
SamRecords ==
  {[Qname |-> <<"r", "1">>, Flag |-> 4, Rname |-> <<"*">>, Pos |-> 0, Mapq |-> 0,
    Cigar |-> <<"*">>, Rnext |-> <<"*">>, Pnext |-> 0, Tlen |-> 0,
    Seq |-> <<"A">>, Qual |-> <<"I">>, Tags |-> <<>>],
   [Qname |-> <<"r", "2">>, Flag |-> 83, Rname |-> <<"c", "1">>, Pos |-> 10,
    Mapq |-> 60, Cigar |-> <<"2", "M">>, Rnext |-> <<"=">>, Pnext |-> 7, Tlen |-> -5,
    Seq |-> <<"A", "C">>, Qual |-> <<"I", "I">>, Tags |-> <<"N", "H", ":", "i", ":", "1">>]}
BufLens == {0, SmallBuf, LargeBuf}
EOF == "EOF"
Smaller(a, b) == IF a < b THEN a ELSE b
\* copy(p, s[0:]): the first min(len(p), len(s)) bytes of s are in p.
Copied(l, s) == SubSeq(s, 1, Smaller(l, Len(s)))
Call(l, n, e, took) == [len |-> l, n |-> n, err |-> e, took |-> took]

SamInit ==
  /\ samAll \in SeqsUpTo(SamRecords, MaxRows)
  /\ samRows = samAll
  /\ samRowsErr = Nil
  /\ samOut = <<>>
  /\ samLog = <<>>
  /\ WorkerIdle
  /\ SchedIdle
  /\ PosIdle
  /\ RefsIdle
  /\ ReaderIdle
  /\ NoTables
  /\ OwnIdle
  /\ OverlapIdle

CanRead == Len(samLog) < MaxReads
\* if len(p) == 0 { return 0, nil }
Sam_ReadEmpty ==
  /\ CanRead
  /\ samLog' = Append(samLog, Call(0, 0, Nil, 0))
  /\ UNCHANGED <<samAll, samRows, samRowsErr, samOut>>
  /\ UNCHANGED <<wvars, svars, pvars, rvars, dvars, cvars, ovars, xvars>>

\* r.rows.Next() is true and StructScan succeeds: n = copy(p, s[0:]); return
Sam_ReadRow(l) ==
  /\ CanRead
  /\ l > 0
  /\ samRowsErr = Nil
  /\ samRows # <<>>
  /\ LET got == Copied(l, FormatLine(samRows[1]))
     IN /\ samOut' = samOut \o got
        /\ samLog' = Append(samLog, Call(l, Len(got), Nil, 1))
  /\ samRows' = Tail(samRows)
  /\ UNCHANGED <<samAll, samRowsErr>>
  /\ UNCHANGED <<wvars, svars, pvars, rvars, dvars, cvars, ovars, xvars>>

\* r.rows.Next() is true and StructScan fails: return 0, err
Sam_ReadScanFail(l) ==
  /\ CanRead
  /\ l > 0
  /\ samRowsErr = Nil
  /\ samRows # <<>>
  /\ samRows' = Tail(samRows)
  /\ samLog' = Append(samLog, Call(l, 0, ScanError, 1))
  /\ UNCHANGED <<samAll, samRowsErr, samOut>>
  /\ UNCHANGED <<wvars, svars, pvars, rvars, dvars, cvars, ovars, xvars>>

\* r.rows.Next() is false after the last row, r.rows.Err() is nil: return 0, io.EOF
Sam_ReadEOF(l) ==
  /\ CanRead
  /\ l > 0
  /\ samRowsErr = Nil
  /\ samRows = <<>>
  /\ samLog' = Append(samLog, Call(l, 0, EOF, 0))
  /\ UNCHANGED <<samAll, samRows, samRowsErr, samOut>>
  /\ UNCHANGED <<wvars, svars, pvars, rvars, dvars, cvars, ovars, xvars>>

\* r.rows.Next() is false on an error of the cursor, which closes it:
\* return 0, r.rows.Err()
Sam_ReadCursorFail(l) ==
  /\ CanRead
  /\ l > 0
  /\ samRowsErr = Nil
  /\ samRows # <<>>
  /\ samRowsErr' = CursorError
  /\ samRows' = <<>>
  /\ samLog' = Append(samLog, Call(l, 0, CursorError, 0))
  /\ UNCHANGED <<samAll, samOut>>
  /\ UNCHANGED <<wvars, svars, pvars, rvars, dvars, cvars, ovars, xvars>>

\* A call after that error: r.rows.Next() is false, r.rows.Err() is the error.
Sam_ReadFailed(l) ==
  /\ CanRead
  /\ l > 0
  /\ samRowsErr # Nil
  /\ samLog' = Append(samLog, Call(l, 0, samRowsErr, 0))
  /\ UNCHANGED <<samAll, samRows, samRowsErr, samOut>>
  /\ UNCHANGED <<wvars, svars, pvars, rvars, dvars, cvars, ovars, xvars>>

SamNext ==
  \/ Sam_ReadEmpty
  \/ \E l \in BufLens : Sam_ReadRow(l)
  \/ \E l \in BufLens : Sam_ReadScanFail(l)
  \/ \E l \in BufLens : Sam_ReadEOF(l)
  \/ \E l \in BufLens : Sam_ReadCursorFail(l)
  \/ \E l \in BufLens : Sam_ReadFailed(l)
SpecSam == SamInit /\ [][SamNext]_vars

\* The lines of the first n records of the result, one after the other.
RECURSIVE LinesUpTo(_)
LinesUpTo(n) == IF n = 0 THEN <<>> ELSE LinesUpTo(n - 1) \o FormatLine(samAll[n])
\* The rows the calls took from the cursor.
RECURSIVE Took(_)
Took(i) == IF i = 0 THEN 0 ELSE Took(i - 1) + samLog[i].took
AllMapped == \A i \in DOMAIN samLog : samLog[i].err # ScanError

\* C36: every call of Read returns 0 <= n <= len(p); a call with an empty buffer
\* returns (0, nil) and takes no row; a call after the last row returns
\* (0, io.EOF), a call that meets an error (0, err); and when every row could be
\* mapped the bytes returned so far are the lines of the rows taken so far,
\* whatever the lengths of the buffers.
C36_ReadLosesNothing ==
  /\ \A i \in DOMAIN samLog :
       LET c == samLog[i]
       IN /\ 0 <= c.n /\ c.n <= c.len
          /\ c.len = 0 => (c.n = 0 /\ c.err = Nil /\ c.took = 0)
          /\ c.err # Nil => c.n = 0
          /\ c.err = EOF => Took(i) = Len(samAll)
  /\ AllMapped => samOut = LinesUpTo(Took(Len(samLog)))

\* ------------------- one call of head or tail of compare-read-positions
\* strand is an int: the two strands main loops over and the values around them.
LocalStrands == {-2, Reverse, 0, Forward, 2}
LocalPosInit ==
  /\ callFn \in {"head", "tail"}
  /\ callRange \in CallRanges
  /\ callOri \in LocalStrands
  /\ callRet = NoCall
  /\ callPos = NoPos
  /\ WorkerIdle
  /\ SchedIdle
  /\ RefsIdle
  /\ ReaderIdle
  /\ NoTables
  /\ OwnIdle
  /\ OverlapIdle
  /\ SamIdle

\* getPos(&r.Range, strand) runs to its return or to its panic.
CallLocalPos ==
  /\ callRet = NoCall
  /\ callRet' = IF callFn = "head" THEN LocalHeadCall(callRange, callOri)
                ELSE LocalTailCall(callRange, callOri)
  /\ UNCHANGED <<callFn, callRange, callOri, callPos>>
  /\ UNCHANGED <<wvars, svars, rvars, dvars, cvars, ovars, xvars, mvars>>

LocalPosNext == CallLocalPos \/ AssignPos
SpecLocalPos == LocalPosInit /\ [][LocalPosNext]_vars

\* What htsdb.Head or htsdb.Tail does on the arguments of the local call.
LibraryCall ==
  IF callFn = "head" THEN HeadCall(callRange, callOri)
  ELSE TailCall(callRange, callOri)

\* C37: a call of the local head (tail) ends as htsdb.Head (htsdb.Tail) ends on
\* the same range and strand: for strand 1 and -1 both return, and the same
\* coordinate; for any other strand both panic.
C37_LocalHelpersAgree ==
  callRet # NoCall =>
    /\ callRet.kind = LibraryCall.kind
    /\ callRet.kind = "return" <=> callOri \in Strands
    /\ callRet.kind = "return" => callRet.value = LibraryCall.value
    /\ callPos # NoPos => callPos.value = LibraryCall.value
\* A head call on the reverse strand of a range longer than one base has
\* returned the stop, as htsdb.Head does.
C37_Witness ==
  /\ callFn = "head"
  /\ callOri = Reverse
  /\ callRange = [StartPos |-> 3, StopPos |-> 7]
  /\ callPos = [set |-> TRUE, value |-> 7]
  /\ HeadCall(callRange, callOri) = Return(7)

====
